---- MODULE Spec2Model ----
(***************************************************************************)
(* Model of the backtesting core of the trading bot:                       *)
(*   - Backtester.run / Backtester._enforce_sl_tp (app/backtesting)        *)
(*   - the signal generators of the three strategies (app/strategies)      *)
(*                                                                         *)
(* Numbers.  Prices are integers.  A float that is the quotient of two     *)
(* integers is kept as an exact fraction <<num, den>> with den > 0; the    *)
(* fraction <<0, 0>> stands for NaN.  Stop-loss and take-profit levels are *)
(* kept in hundredths of a price unit (PriceScale), percentages as whole   *)
(* per cent, so that entry * (1 - pct) is an integer.                      *)
(***************************************************************************)
EXTENDS Integers, Sequences, FiniteSets, TLC

\* ------------------------------------------------------------------ bounds
\* Number of bars of a frame handed to the stop-loss/take-profit pass.
MaxBars == 3

\* Number of bars of a frame evaluated without a risk configuration.
MaxEvalBars == 4

\* Number of bars of a frame handed to a strategy's signal generator.
MaxSignalBars == 4

\* ------------------------------------------------------- program constants
\* Signal enum (app/core/enums.py).
BUY == 1

SELL == 0 - 1

HOLD == 0

\* Levels are stored multiplied by PriceScale; percentages are whole per cent.
PriceScale == 100

\* Sentinel for a NaN cell of the integer stop_loss_price column.
NaN == 0 - 1000

\* Sentinel for entry_index = None.
None == 0

\* The spec's RiskConfig.max_hold_period (bars).  The RiskConfig of the code
\* has no such field and _enforce_sl_tp never reads one.
max_hold_period == 2

\* --------------------------------------------------------------- input sets
Signals == {SELL, HOLD, BUY}

\* Closes of the frames that go through _enforce_sl_tp.
ExitPrices == {98, 100, 104}

\* A strategy-provided stop_loss_price column (close - ATR * multiplier): NaN
\* while the ATR warms up, StopDistance below the close afterwards.
StopDistance == 1

Warmups == {0, 1}

StopColumns(c) ==
    { [i \in 1..Len(c) |-> IF i <= w THEN NaN ELSE c[i] - StopDistance] : w \in Warmups }

\* RiskConfig values: the defaults (2% / 4%), and 0% / 0%, which the model
\* accepts like the code does (the fields carry no validation).
RiskConfigs == { [stop_loss_pct |-> 2, take_profit_pct |-> 4],
                 [stop_loss_pct |-> 0, take_profit_pct |-> 0] }

\* risk_config = None
NoRisk == [stop_loss_pct |-> 0 - 1, take_profit_pct |-> 0 - 1]

\* Closes of the frames evaluated without a risk configuration.
EvalPrices == {100, 110, 121}

\* Closes of the frames handed to the strategies.
SignalPrices == {100, 104}

\* high = close + Spread, low = close - Spread on every bar of those frames.
Spread == 1

\* Strategy parameters (config.params) of the modelled strategies.
fast_window == 1

slow_window == 3

atr_window == 2

volatility_lookback == 1

bb_window == 2

\* bb_std_dev = 0.5
bb_std_dev == <<1, 2>>

Strategies == {"sma_cross", "atr", "bollinger"}

\* MarketState enum (app/core/enums.py).
MarketStates == {"TRENDING_UP", "TRENDING_DOWN", "RANGING"}

\* Sign of the MACD histogram on a bar.
HistogramSigns == {0 - 1, 0, 1}

\* An attached filter either evaluates ("ok") or raises ("raises").
FilterModes == {"none", "ok", "raises"}

\* config.long_only: absent from the config object, False or True.
LongOnlyValues == {"missing", "off", "on"}

\* A DataFrame, as far as the orchestration looks at it: its index (bar
\* timestamps, in candles, ascending) and the names of its columns.
Frame(index, columns) == [index |-> index, columns |-> columns]

\* The columns of the frames a data handler returns.
OHLCV == {"open", "high", "low", "close", "volume"}

\* pd.DataFrame() without rows.
EmptyFrame == Frame(<<>>, OHLCV)

\* No regime filter / no momentum filter attached.
NoRegimeFilter == [class |-> "None", window |-> 0]

NoMomentumFilter == [class |-> "None", macd_slow |-> 0, macd_signal |-> 0]

\* An optional range that is None (a range given holds at least one value).
NoRange == <<>>

\* optimize called with fast_window_range and slow_window_range only.
NoExtraRanges ==
    [ atr_window_range |-> NoRange, atr_multiplier_range |-> NoRange,
      adx_window_range |-> NoRange, adx_threshold_range |-> NoRange,
      macd_fast_range |-> NoRange, max_hold_hours_range |-> NoRange ]

\* The regime filters a strategy can be asked to carry: none, the
\* repository's ADXVolatilityFilter (adx_window 2), or another implementation
\* of IMarketRegimeFilter whose max_lookback_period is its window (4).
RegimeFilterConfigs ==
    { NoRegimeFilter,
      [class |-> "ADXVolatilityFilter", window |-> 2],
      [class |-> "IMarketRegimeFilter", window |-> 4] }

\* The momentum filters: none, or MACDConfirmationFilter(macd_slow 3,
\* macd_signal 2).
MomentumFilterConfigs ==
    { NoMomentumFilter,
      [class |-> "MACDConfirmationFilter", macd_slow |-> 3, macd_signal |-> 2] }

\* ------------------------------------------------------------------- state
VARIABLES
    pc,                 \* position in Backtester.run
    close,              \* df['close']
    strategy_signal,    \* df['signal'] as returned by the strategy
    signal,             \* df['signal'] of the working copy
    has_sl_column,      \* 'stop_loss_price' in df.columns
    stop_loss_column,   \* df['stop_loss_price']
    risk_config,        \* self.risk_config
    idx,                \* loop index of _enforce_sl_tp (1-based)
    in_position,
    entry_price,
    stop_loss_price,    \* in 1/PriceScale
    take_profit_price,  \* in 1/PriceScale
    entry_index,
    sl_exits,
    tp_exits,
    branch,             \* branch of the loop body taken for bar idx - 1
    strategy_return,    \* df['strategy_return']
    equity_curve,       \* df['equity_curve']
    strategy,           \* class of the strategy
    regime_filter,      \* self.regime_filter and whether get_regime raises
    momentum_filter,    \* self.momentum_filter and whether is_entry_valid raises
    long_only,          \* self.config.long_only
    indicators,         \* the indicator columns of df
    row,                \* next row of the vectorised assignment (1-based)
    regime_now,         \* regime_series on row - 1
    histogram_now,      \* sign of macd.histogram on row - 1
    handler_data,       \* the frame the data handler serves (CachedDataHandler.cached_data)
    start_ts,           \* start of the requested window
    end_ts,             \* end of the requested window
    regime_filter_config,   \* the regime filter asked for
    momentum_filter_config, \* the momentum filter asked for
    df,                 \* the working frame of Backtester.run
    fetched,            \* the frame get_historical_data returned to the run
    max_lookback,       \* local max_lookback of Backtester.run
    error,              \* the exception a run ended with
    metrics,            \* whether the run returned metrics
    mode,               \* optimize ("standard") or optimize_with_validation ("walk_forward")
    cached_data,        \* StrategyOptimizer.cached_data
    loads,              \* number of fetches from the exchange (load_data_once)
    split_ts,           \* self.split_date
    fast_window_range,
    slow_window_range,
    extra_ranges,       \* the optional ranges of optimize (None when not given)
    top_n,
    trial_sharpe,       \* the Sharpe ratio of each (phase, combination) on the loaded data
    valid_combinations,
    total_tests,
    trial,              \* idx of the sweep loops (1-based)
    results,            \* self.results
    is_results,
    top_performers,
    validated_results,
    trial_log,          \* the calls of _run_single_backtest of the current sweep
    reported,           \* the "successful runs: n/total" line last printed
    calls,              \* sweeps finished on this optimizer
    sharpe_is,          \* the arguments of calculate_robustness_factor
    sharpe_oos,
    robustness_factor,  \* its return value
    trades,             \* the rows of the trades table, in insertion order
    position_cache,     \* MockExecutor._position_cache
    last_signal_value,  \* TradingBot.last_signal_value
    position,           \* the last return value of get_position
    latest_signal,      \* locals of the last run_once
    latest_close,
    order_side,         \* the side of the order run_once submitted, if any
    cycle_error,        \* the exception the last run_once ended with
    iteration,          \* local iteration of TradingBot.start
    saved_signals       \* number of rows of the signals table

vars == << pc, close, strategy_signal, signal, has_sl_column, stop_loss_column,
           risk_config, idx, in_position, entry_price, stop_loss_price,
           take_profit_price, entry_index, sl_exits, tp_exits, branch,
           strategy_return, equity_curve, strategy, regime_filter,
           momentum_filter, long_only, indicators, row, regime_now,
           histogram_now, handler_data, start_ts, end_ts, regime_filter_config,
           momentum_filter_config, df, fetched, max_lookback, error, metrics,
           mode, cached_data, loads, split_ts, fast_window_range,
           slow_window_range, extra_ranges, top_n, trial_sharpe, valid_combinations,
           total_tests, trial, results, is_results, top_performers,
           validated_results, trial_log, reported, calls,
           sharpe_is, sharpe_oos, robustness_factor, trades, position_cache,
           last_signal_value, position, latest_signal, latest_close,
           order_side, cycle_error, iteration, saved_signals >>

\* The variables of a strategy's signal generation.
strategy_vars == << strategy, regime_filter, momentum_filter, long_only,
                    indicators, row, regime_now, histogram_now >>

\* The variables of a run of the Backtester around the strategy.
run_vars == << handler_data, start_ts, end_ts, regime_filter_config,
               momentum_filter_config, df, fetched, max_lookback, error, metrics >>

\* The variables of a StrategyOptimizer.
sweep_vars == << mode, cached_data, loads, split_ts, fast_window_range,
                 slow_window_range, extra_ranges, top_n, trial_sharpe, valid_combinations,
                 total_tests, trial, results, is_results, top_performers,
                 validated_results, trial_log, reported, calls >>

\* The variables of the analysis of a walk-forward result.
analysis_vars == << sharpe_is, sharpe_oos, robustness_factor >>

\* The variables of the live bot and of its executor.
live_vars == << trades, position_cache, last_signal_value, position,
               latest_signal, latest_close, order_side, cycle_error,
               iteration, saved_signals >>

\* ------------------------------------------------------------ exact floats
Abs(x) == IF x < 0 THEN 0 - x ELSE x

RECURSIVE GCD(_, _)
GCD(a, b) == IF b = 0 THEN a ELSE GCD(b, a % b)

\* A fraction in lowest terms with a positive denominator; NaN stays NaN.
Norm(q) ==
    IF q[2] = 0 THEN <<0, 0>>
    ELSE LET s == IF q[2] < 0 THEN 0 - 1 ELSE 1
             g == GCD(Abs(q[1]), Abs(q[2]))
         IN  << (s * q[1]) \div g, (s * q[2]) \div g >>

QNaN == <<0, 0>>

IsNaN(q) == q[2] = 0

Q(n) == <<n, 1>>

QMul(a, b) == IF IsNaN(a) \/ IsNaN(b) THEN QNaN ELSE Norm(<<a[1] * b[1], a[2] * b[2]>>)

QAdd(a, b) == IF IsNaN(a) \/ IsNaN(b) THEN QNaN ELSE Norm(<<a[1] * b[2] + b[1] * a[2], a[2] * b[2]>>)

\* ------------------------------------------------------ pandas primitives
\* Series.shift(1): first cell NaN, the rest moved down one row.
Shift1(s) == [t \in 1..Len(s) |-> IF t = 1 THEN QNaN ELSE s[t - 1]]

\* Series.fillna(v)
FillNa(s, v) == [t \in 1..Len(s) |-> IF IsNaN(s[t]) THEN v ELSE s[t]]

\* Series.pct_change(): s[t] / s[t-1] - 1, NaN on the first row.
PctChange(s) == [t \in 1..Len(s) |-> IF t = 1 THEN QNaN ELSE Norm(<<s[t] - s[t - 1], s[t - 1]>>)]

\* Series.cumprod()
RECURSIVE CumProd(_)
CumProd(s) ==
    IF Len(s) <= 1 THEN s
    ELSE LET before == CumProd(SubSeq(s, 1, Len(s) - 1))
         IN  Append(before, QMul(before[Len(s) - 1], s[Len(s)]))

\* An integer column as a float series.
AsFloat(s) == [t \in 1..Len(s) |-> Q(s[t])]

\* -------------------------------------------------- Backtester._enforce_sl_tp
\* The comparison with the equality dropped.
StopLossHitStrict(price, sl) == price * PriceScale < sl

\* current_price <= stop_loss_price
StopLossHit(price, sl) == price * PriceScale <= sl

\* current_price >= take_profit_price
TakeProfitHit(price, tp) == price * PriceScale >= tp

\* entry_price * (1 - self.risk_config.stop_loss_pct)
ConfigStopLoss(entry, rc) == entry * (PriceScale - rc.stop_loss_pct)

\* entry_price * (1 + self.risk_config.take_profit_pct)
ConfigTakeProfit(entry, rc) == entry * (PriceScale + rc.take_profit_pct)

\* The bar carries a usable strategy-provided stop: the column exists and its
\* cell is not NaN and positive.
HasStrategyStop(i) == has_sl_column /\ stop_loss_column[i] # NaN /\ stop_loss_column[i] > 0

\* The stop-loss level taken at an entry on bar i.
EntryStopLoss(i) ==
    IF HasStrategyStop(i) THEN stop_loss_column[i] * PriceScale
    ELSE ConfigStopLoss(close[i], risk_config)

\* The entry test without `not in_position`.
BranchReentersWhileLong(i) ==
    IF in_position /\ StopLossHit(close[i], stop_loss_price) THEN "STOP_LOSS"
    ELSE IF in_position /\ TakeProfitHit(close[i], take_profit_price) THEN "TAKE_PROFIT"
    ELSE IF signal[i] = BUY THEN "ENTRY"
    ELSE IF signal[i] = SELL /\ in_position THEN "STRATEGY_SIGNAL"
    ELSE "NONE"

\* The branch of the loop body that bar i takes in the current state:
\* first match wins, a forced exit ends the iteration (continue).
Branch(i) ==
    IF in_position /\ StopLossHit(close[i], stop_loss_price) THEN "STOP_LOSS"
    ELSE IF in_position /\ TakeProfitHit(close[i], take_profit_price) THEN "TAKE_PROFIT"
    ELSE IF signal[i] = BUY /\ ~in_position THEN "ENTRY"
    ELSE IF signal[i] = SELL /\ in_position THEN "STRATEGY_SIGNAL"
    ELSE "NONE"

\* What every iteration does besides its branch: advance, and leave the loop
\* after the last bar.
Advance ==
    /\ idx' = idx + 1
    /\ pc' = IF idx = Len(close) THEN "evaluate" ELSE "enforce"
    /\ UNCHANGED << close, strategy_signal, has_sl_column, stop_loss_column,
                    risk_config, strategy_return, equity_curve, strategy_vars, run_vars, sweep_vars, analysis_vars, live_vars >>

\* in_position = False; entry_price = stop_loss_price = take_profit_price = 0.0
ClosePosition ==
    /\ in_position' = FALSE
    /\ entry_price' = 0
    /\ stop_loss_price' = 0
    /\ take_profit_price' = 0
    /\ UNCHANGED entry_index

\* A forced exit that does not end the iteration: the bar's BUY, read before
\* the exit, opens a new position at once.
ForcedExitFallsThrough ==
    IF signal[idx] = BUY
    THEN /\ entry_price' = close[idx]
         /\ stop_loss_price' = EntryStopLoss(idx)
         /\ take_profit_price' = ConfigTakeProfit(close[idx], risk_config)
         /\ in_position' = TRUE
         /\ entry_index' = idx
    ELSE ClosePosition

\* The end of a forced exit: the position is cleared and `continue` skips the
\* entry and exit handling of the bar.
ForcedExit == ClosePosition

StopLossExit ==
    /\ pc = "enforce"
    /\ Branch(idx) = "STOP_LOSS"
    /\ signal' = [signal EXCEPT ![idx] = SELL]
    /\ sl_exits' = sl_exits + 1
    /\ ForcedExit
    /\ branch' = "STOP_LOSS"
    /\ UNCHANGED tp_exits
    /\ Advance

TakeProfitExit ==
    /\ pc = "enforce"
    /\ Branch(idx) = "TAKE_PROFIT"
    /\ signal' = [signal EXCEPT ![idx] = SELL]
    /\ tp_exits' = tp_exits + 1
    /\ ForcedExit
    /\ branch' = "TAKE_PROFIT"
    /\ UNCHANGED sl_exits
    /\ Advance

EnterPosition ==
    /\ pc = "enforce"
    /\ Branch(idx) = "ENTRY"
    /\ entry_price' = close[idx]
    /\ stop_loss_price' = EntryStopLoss(idx)
    /\ take_profit_price' = ConfigTakeProfit(close[idx], risk_config)
    /\ in_position' = TRUE
    /\ entry_index' = idx
    /\ branch' = "ENTRY"
    /\ UNCHANGED << signal, sl_exits, tp_exits >>
    /\ Advance

StrategyExit ==
    /\ pc = "enforce"
    /\ Branch(idx) = "STRATEGY_SIGNAL"
    /\ ClosePosition
    /\ branch' = "STRATEGY_SIGNAL"
    /\ UNCHANGED << signal, sl_exits, tp_exits >>
    /\ Advance

NoAction ==
    /\ pc = "enforce"
    /\ Branch(idx) = "NONE"
    /\ branch' = "NONE"
    /\ UNCHANGED << signal, sl_exits, tp_exits, in_position, entry_price,
                    stop_loss_price, take_profit_price, entry_index >>
    /\ Advance

\* ------------------------------------------------- Backtester.run, the returns
initial_capital == 1

\* df["pct_change"]
PctChangeColumn(c) == FillNa(PctChange(c), Q(0))

\* The signal column used without the one-bar lag.
ShiftedSignalUnlagged(sig) == AsFloat(sig)

\* The signal column forward-filled before the lag (a position held until the
\* next non-zero signal).
ShiftedSignalHeld(sig) ==
    LET RECURSIVE held(_)
        held(t) == IF t = 0 THEN 0 ELSE IF sig[t] # HOLD THEN sig[t] ELSE held(t - 1)
    IN  [t \in 1..Len(sig) |-> Q(held(t - 1))]

\* df["shifted_signal"]
ShiftedSignal(sig) == FillNa(Shift1(AsFloat(sig)), Q(0))

\* df["strategy_return"]
StrategyReturn(c, sig) ==
    LET shifted_signal == ShiftedSignal(sig)
        pct_change == PctChangeColumn(c)
    IN  [t \in 1..Len(c) |-> QMul(shifted_signal[t], pct_change[t])]

\* df["equity_curve"]
EquityCurve(ret) ==
    LET growth == [t \in 1..Len(ret) |-> QAdd(Q(1), ret[t])]
        cumprod == CumProd(growth)
    IN  [t \in 1..Len(ret) |-> QMul(cumprod[t], Q(initial_capital))]

Evaluate ==
    /\ pc = "evaluate"
    /\ strategy_return' = StrategyReturn(close, signal)
    /\ equity_curve' = EquityCurve(strategy_return')
    /\ pc' = "done"
    /\ UNCHANGED << close, strategy_signal, signal, has_sl_column, stop_loss_column,
                    risk_config, idx, in_position, entry_price, stop_loss_price,
                    take_profit_price, entry_index, sl_exits, tp_exits, branch,
                    strategy_vars, run_vars, sweep_vars, analysis_vars, live_vars >>

\* ------------------------------------------------------------ specification
\* The frames of MaxBars bars that a run with a risk configuration processes.
InitExit ==
    /\ close \in [1..MaxBars -> ExitPrices]
    /\ strategy_signal \in [1..MaxBars -> Signals]
    /\ has_sl_column \in BOOLEAN
    /\ stop_loss_column \in IF has_sl_column THEN StopColumns(close) ELSE {<<>>}
    /\ risk_config \in RiskConfigs
    /\ pc = "enforce"

\* The frames of up to MaxEvalBars bars that a run without one evaluates.
InitEval ==
    /\ \E n \in 1..MaxEvalBars :
          /\ close \in [1..n -> EvalPrices]
          /\ strategy_signal \in [1..n -> Signals]
    /\ has_sl_column = FALSE
    /\ stop_loss_column = <<>>
    /\ risk_config = NoRisk
    /\ pc = "evaluate"

\* The local state of _enforce_sl_tp before its loop, and the columns that
\* run has not computed yet.
InitLocals ==
    /\ signal = strategy_signal
    /\ idx = 1
    /\ in_position = FALSE
    /\ entry_price = 0
    /\ stop_loss_price = 0
    /\ take_profit_price = 0
    /\ entry_index = None
    /\ sl_exits = 0
    /\ tp_exits = 0
    /\ branch = "NONE"
    /\ strategy_return = <<>>
    /\ equity_curve = <<>>

\* The strategy of a run whose signals are given: its generation is over.
NoStrategy ==
    /\ strategy = "given"
    /\ regime_filter = "none"
    /\ momentum_filter = "none"
    /\ long_only = "off"
    /\ indicators = <<>>
    /\ row = 1
    /\ regime_now = "RANGING"
    /\ histogram_now = 0

\* No run of the Backtester around the strategy is modelled.
NoRun ==
    /\ handler_data = EmptyFrame
    /\ start_ts = 0
    /\ end_ts = 0
    /\ regime_filter_config = NoRegimeFilter
    /\ momentum_filter_config = NoMomentumFilter
    /\ df = EmptyFrame
    /\ fetched = EmptyFrame
    /\ max_lookback = 0
    /\ error = "none"
    /\ metrics = "none"

\* last_signal_value = None (the signals are -1, 0 and 1).
NoLastSignal == 2

\* No value returned by get_position yet.
NoPosition ==
    [ symbol |-> "", net_quantity |-> <<0, 1>>, total_buys |-> <<0, 1>>,
      total_sells |-> <<0, 1>>, is_flat |-> TRUE ]

\* No bot and no executor is modelled.
NoLive ==
    /\ trades = <<>>
    /\ position_cache = <<>>
    /\ last_signal_value = NoLastSignal
    /\ position = NoPosition
    /\ latest_signal = HOLD
    /\ latest_close = 0
    /\ order_side = "none"
    /\ cycle_error = "none"
    /\ iteration = 0
    /\ saved_signals = 0

\* No optimizer and no analysis is modelled.
NoSweep ==
    /\ sharpe_is = QNaN
    /\ sharpe_oos = QNaN
    /\ robustness_factor = QNaN
    /\ mode = "none"
    /\ cached_data = EmptyFrame
    /\ loads = 0
    /\ split_ts = 0
    /\ fast_window_range = <<>>
    /\ slow_window_range = <<>>
    /\ extra_ranges = NoExtraRanges
    /\ top_n = 0
    /\ trial_sharpe = <<>>
    /\ valid_combinations = <<>>
    /\ total_tests = 0
    /\ trial = 1
    /\ results = <<>>
    /\ is_results = <<>>
    /\ top_performers = <<>>
    /\ validated_results = <<>>
    /\ trial_log = <<>>
    /\ reported = [successes |-> 0, total |-> 0]
    /\ calls = 0

\* Runs with a risk configuration: the stop-loss/take-profit pass, then the
\* returns.
Init == InitExit /\ InitLocals /\ NoStrategy /\ NoRun /\ NoSweep /\ NoLive

Next ==
    \/ StopLossExit
    \/ TakeProfitExit
    \/ EnterPosition
    \/ StrategyExit
    \/ NoAction
    \/ Evaluate

Spec == Init /\ [][Next]_vars

\* Runs without a risk configuration: the returns of the strategy's signals.
InitNoRisk == InitEval /\ InitLocals /\ NoStrategy /\ NoRun /\ NoSweep /\ NoLive

SpecEval == InitNoRisk /\ [][Evaluate]_vars

\* ============================================================== strategies
\* Comparisons of floats: any comparison with NaN is False.
QLt(a, b) == ~IsNaN(a) /\ ~IsNaN(b) /\ a[1] * b[2] < b[1] * a[2]

QLe(a, b) == ~IsNaN(a) /\ ~IsNaN(b) /\ a[1] * b[2] <= b[1] * a[2]

QGt(a, b) == QLt(b, a)

QGe(a, b) == QLe(b, a)

QSub(a, b) == QAdd(a, <<0 - b[1], b[2]>>)

QAbs(a) == <<Abs(a[1]), a[2]>>

QMax(a, b) == IF QGe(a, b) THEN a ELSE b

\* Series.shift(n)
ShiftN(s, n) == [t \in 1..Len(s) |-> IF t <= n THEN QNaN ELSE s[t - n]]

\* Series.ewm(span=span, adjust=False).mean()
RECURSIVE Ewm(_, _)
Ewm(s, span) ==
    IF Len(s) <= 1 THEN s
    ELSE LET before == Ewm(SubSeq(s, 1, Len(s) - 1), span)
             alpha == <<2, span + 1>>
         IN  Append(before, QAdd(QMul(<<span - 1, span + 1>>, before[Len(s) - 1]),
                                 QMul(alpha, s[Len(s)])))

RECURSIVE SumOver(_, _, _)
SumOver(s, from, to) == IF from > to THEN Q(0) ELSE QAdd(s[from], SumOver(s, from + 1, to))

\* Series.rolling(window=w).mean(): NaN until w rows are available.
RollingMean(s, w) ==
    [t \in 1..Len(s) |-> IF t < w THEN QNaN ELSE QMul(SumOver(s, t - w + 1, t), <<1, w>>)]

\* The square of Series.rolling(window=w).std() (sample variance, ddof = 1).
RollingVar(s, w) ==
    LET mean == RollingMean(s, w)
        sq(t) == [k \in 1..Len(s) |-> LET d == QSub(s[k], mean[t]) IN QMul(d, d)]
    IN  [t \in 1..Len(s) |-> IF t < w THEN QNaN
                             ELSE QMul(SumOver(sq(t), t - w + 1, t), <<1, w - 1>>)]

\* df['high'], df['low'] of the frames handed to the strategies.
High(c) == [t \in 1..Len(c) |-> Q(c[t] + Spread)]

Low(c) == [t \in 1..Len(c) |-> Q(c[t] - Spread)]

\* True Range; the row-wise max skips the NaN of the first row.
TrueRange(c) ==
    LET prev_close == Shift1(AsFloat(c))
        tr1 == [t \in 1..Len(c) |-> QSub(High(c)[t], Low(c)[t])]
        tr2 == [t \in 1..Len(c) |-> QAbs(QSub(High(c)[t], prev_close[t]))]
        tr3 == [t \in 1..Len(c) |-> QAbs(QSub(Low(c)[t], prev_close[t]))]
    IN  [t \in 1..Len(c) |-> IF IsNaN(prev_close[t]) THEN tr1[t]
                             ELSE QMax(tr1[t], QMax(tr2[t], tr3[t]))]

\* calculate_indicators of the three strategies.
SmaIndicators(c) ==
    [ema_fast |-> Ewm(AsFloat(c), fast_window), ema_slow |-> Ewm(AsFloat(c), slow_window)]

AtrIndicators(c) ==
    [ema_fast |-> Ewm(AsFloat(c), fast_window), ema_slow |-> Ewm(AsFloat(c), slow_window),
     atr |-> RollingMean(TrueRange(c), atr_window)]

\* bb_var is the square of the bb_std column; the bands are
\* bb_middle +/- bb_std_dev * bb_std.
BollingerIndicators(c) ==
    [bb_middle |-> RollingMean(AsFloat(c), bb_window),
     bb_var |-> RollingVar(AsFloat(c), bb_window)]

CalculateIndicators ==
    /\ pc = "indicators"
    /\ indicators' = CASE strategy = "sma_cross" -> SmaIndicators(close)
                       [] strategy = "atr" -> AtrIndicators(close)
                       [] strategy = "bollinger" -> BollingerIndicators(close)
    /\ pc' = "rows"
    /\ UNCHANGED << close, strategy_signal, signal, has_sl_column, stop_loss_column,
                    risk_config, idx, in_position, entry_price, stop_loss_price,
                    take_profit_price, entry_index, sl_exits, tp_exits, branch,
                    strategy_return, equity_curve, strategy, regime_filter,
                    momentum_filter, long_only, row, regime_now, histogram_now,
                    run_vars, sweep_vars, analysis_vars, live_vars >>

\* A cell of a column shifted by one row.
Prev(col, i) == IF i = 1 THEN QNaN ELSE col[i - 1]

\* The crossover tested on the current level alone.
GoldenCrossLevel(i) == QGt(indicators.ema_fast[i], indicators.ema_slow[i])

\* (prev_fast <= prev_slow) & (curr_fast > curr_slow)
GoldenCross(i) ==
    /\ QLe(Prev(indicators.ema_fast, i), Prev(indicators.ema_slow, i))
    /\ QGt(indicators.ema_fast[i], indicators.ema_slow[i])

\* (prev_fast >= prev_slow) & (curr_fast < curr_slow)
DeathCross(i) ==
    /\ QGe(Prev(indicators.ema_fast, i), Prev(indicators.ema_slow, i))
    /\ QLt(indicators.ema_fast[i], indicators.ema_slow[i])

\* price_change.abs() >= 1.0 * df['atr']
HasVolatility(i) ==
    LET price_change == QSub(Q(close[i]), ShiftN(AsFloat(close), volatility_lookback)[i])
    IN  QGe(QAbs(price_change), indicators.atr[i])

\* close < bb_middle - bb_std_dev * bb_std, on row i of the columns
BelowLower(i) ==
    LET c == Q(close[i])
        m == indicators.bb_middle[i]
        d == QSub(m, c)
    IN  /\ ~IsNaN(m) /\ ~IsNaN(indicators.bb_var[i])
        /\ QGt(d, Q(0))
        /\ QGt(QMul(d, d), QMul(QMul(bb_std_dev, bb_std_dev), indicators.bb_var[i]))

\* close > bb_middle + bb_std_dev * bb_std, on row i of the columns
AboveUpper(i) ==
    LET c == Q(close[i])
        m == indicators.bb_middle[i]
        d == QSub(c, m)
    IN  /\ ~IsNaN(m) /\ ~IsNaN(indicators.bb_var[i])
        /\ QGt(d, Q(0))
        /\ QGt(QMul(d, d), QMul(QMul(bb_std_dev, bb_std_dev), indicators.bb_var[i]))

\* The bands are defined on row i.
BandsDefined(i) == i >= 1 /\ ~IsNaN(indicators.bb_middle[i]) /\ ~IsNaN(indicators.bb_var[i])

\* (prev_close >= prev_bb_lower) & (curr_close < curr_bb_lower)
LongTrigger(i) == i > 1 /\ BandsDefined(i - 1) /\ ~BelowLower(i - 1) /\ BelowLower(i)

\* (prev_close <= prev_bb_upper) & (curr_close > curr_bb_upper)
ShortTrigger(i) == i > 1 /\ BandsDefined(i - 1) /\ ~AboveUpper(i - 1) /\ AboveUpper(i)

\* buy_regime_ok / sell_regime_ok of a regime label, per strategy.
RegimeOk(strat, direction, label) ==
    IF strat = "atr"
    THEN IF direction = BUY THEN label = "TRENDING_UP" ELSE label = "TRENDING_DOWN"
    ELSE IF direction = BUY THEN label \in {"TRENDING_UP", "RANGING"}
         ELSE label \in {"TRENDING_DOWN", "RANGING"}

\* MACDConfirmationFilter.is_entry_valid: histogram > 0 for BUY, < 0 for SELL.
IsEntryValid(direction, h) == IF direction = BUY THEN h > 0 ELSE h < 0

\* A regime filter that raises blocks every bar.
RegimeMaskFailClosed(strat, direction, label) ==
    IF regime_filter = "ok" THEN RegimeOk(strat, direction, label)
    ELSE regime_filter = "none"

\* The regime mask applied to a condition: the filter's verdict when it is
\* attached and evaluates, True when there is none or when it raised.
RegimeMask(strat, direction, label) ==
    IF regime_filter = "ok" THEN RegimeOk(strat, direction, label) ELSE TRUE

\* The momentum mask: the filter's verdict, True when there is none or when
\* it raised.
MomentumMask(direction, h) ==
    IF momentum_filter = "ok" THEN IsEntryValid(direction, h) ELSE TRUE

\* np.where(buy_condition, 1, np.where(sell_condition, -1, 0))
AssignSignal(buy_condition, sell_condition) ==
    IF buy_condition THEN BUY ELSE IF sell_condition THEN SELL ELSE HOLD

\* buy_condition and sell_condition of each strategy on row i.
SmaBuyCondition(i) == GoldenCross(i)

SmaSellCondition(i) == DeathCross(i)

AtrBuyCondition(i, label, h) ==
    GoldenCross(i) /\ HasVolatility(i) /\ RegimeMask("atr", BUY, label) /\ MomentumMask(BUY, h)

AtrSellCondition(i, label, h) ==
    DeathCross(i) /\ RegimeMask("atr", SELL, label) /\ MomentumMask(SELL, h)

BollingerBuyCondition(i, label, h) ==
    LongTrigger(i) /\ RegimeMask("bollinger", BUY, label) /\ MomentumMask(BUY, h)

BollingerSellCondition(i, label, h) ==
    ShortTrigger(i) /\ RegimeMask("bollinger", SELL, label) /\ MomentumMask(SELL, h)

\* The regime labels and histogram signs a row can carry: those of the
\* filter's series when the filter evaluates, a placeholder otherwise.
RegimeLabels == IF regime_filter = "ok" THEN MarketStates ELSE {"RANGING"}

Histograms == IF momentum_filter = "ok" THEN HistogramSigns ELSE {0}

\* What the assignment of a row leaves alone, and where it goes next.
RowDone(next_pc) ==
    /\ row' = row + 1
    /\ pc' = IF row = Len(close) THEN next_pc ELSE "rows"
    /\ UNCHANGED << close, strategy_signal, has_sl_column, stop_loss_column,
                    risk_config, idx, in_position, entry_price, stop_loss_price,
                    take_profit_price, entry_index, sl_exits, tp_exits, branch,
                    strategy_return, equity_curve, strategy, regime_filter,
                    momentum_filter, long_only, indicators, run_vars, sweep_vars, analysis_vars, live_vars >>

\* SmaCrossStrategy.generate_signals, one row of the assignment.  The
\* strategy evaluates neither filter: what the attached filters say of the
\* row (regime_now, histogram_now) does not enter the signal.
SmaCrossRow ==
    /\ pc = "rows" /\ strategy = "sma_cross"
    /\ \E label \in RegimeLabels, h \in Histograms :
          /\ regime_now' = label
          /\ histogram_now' = h
    /\ signal' = [signal EXCEPT ![row] = AssignSignal(SmaBuyCondition(row), SmaSellCondition(row))]
    /\ RowDone("long_only")

\* VolatilityAdjustedStrategy.generate_signals, one row of the assignment.
AtrRow ==
    /\ pc = "rows" /\ strategy = "atr"
    /\ \E label \in RegimeLabels, h \in Histograms :
          /\ regime_now' = label
          /\ histogram_now' = h
          /\ signal' = [signal EXCEPT ![row] =
                          AssignSignal(AtrBuyCondition(row, label, h),
                                       AtrSellCondition(row, label, h))]
    /\ RowDone("generated")

\* BollingerBandStrategy.generate_signals, one row of the assignment.
BollingerRow ==
    /\ pc = "rows" /\ strategy = "bollinger"
    /\ \E label \in RegimeLabels, h \in Histograms :
          /\ regime_now' = label
          /\ histogram_now' = h
          /\ signal' = [signal EXCEPT ![row] =
                          AssignSignal(BollingerBuyCondition(row, label, h),
                                       BollingerSellCondition(row, label, h))]
    /\ RowDone("long_only")

\* What the steps after the assignment leave alone.
AfterRowsUnchanged ==
    UNCHANGED << close, strategy_signal, has_sl_column, stop_loss_column,
                 risk_config, idx, in_position, entry_price, stop_loss_price,
                 take_profit_price, entry_index, sl_exits, tp_exits, branch,
                 strategy_return, equity_curve, strategy_vars, run_vars, sweep_vars, analysis_vars, live_vars >>

\* `if self.config.long_only:` on a config object without the attribute:
\* AttributeError, generate_signals returns nothing.
LongOnlyMissing ==
    /\ pc = "long_only"
    /\ long_only = "missing"
    /\ pc' = "raised"
    /\ signal' = signal
    /\ AfterRowsUnchanged

\* np.where(df['signal'] == -1, 0, df['signal']) when long_only is set.
ApplyLongOnly ==
    /\ pc = "long_only"
    /\ long_only # "missing"
    /\ signal' = IF long_only = "on"
                 THEN [t \in 1..Len(signal) |-> IF signal[t] = SELL THEN HOLD ELSE signal[t]]
                 ELSE signal
    /\ pc' = "generated"
    /\ AfterRowsUnchanged

\* The frames of MaxSignalBars bars handed to a strategy with its filters.
InitSignals ==
    /\ close \in [1..MaxSignalBars -> SignalPrices]
    /\ strategy \in Strategies
    /\ regime_filter \in FilterModes
    /\ momentum_filter \in FilterModes
    /\ long_only \in LongOnlyValues
    /\ pc = "indicators"
    /\ strategy_signal = [t \in 1..MaxSignalBars |-> HOLD]
    /\ indicators = <<>>
    /\ row = 1
    /\ regime_now = "RANGING"
    /\ histogram_now = 0
    /\ has_sl_column = FALSE
    /\ stop_loss_column = <<>>
    /\ risk_config = NoRisk
    /\ InitLocals
    /\ NoRun
    /\ NoSweep
    /\ NoLive

NextSignals ==
    \/ CalculateIndicators
    \/ SmaCrossRow
    \/ AtrRow
    \/ BollingerRow
    \/ LongOnlyMissing
    \/ ApplyLongOnly

SpecSignals == InitSignals /\ [][NextSignals]_vars

\* ================================================================ the run
\* Timestamps are counted in candles of the run's timeframe.
MaxTime == 5

\* The frames a data handler can hold: no bar, or the consecutive bars a..b.
HandlerFrames ==
    { EmptyFrame } \cup
    { Frame([i \in 1..(b - a + 1) |-> a + i - 1], OHLCV) : a \in 1..MaxTime, b \in 1..MaxTime }

\* buffer_start = start_ts - 1000 candles
buffer_candles == 1000

\* buffer_limit = 1000
buffer_limit == 1000

Max2(a, b) == IF a >= b THEN a ELSE b

\* Backtester._estimate_limit
EstimateLimit(start, end) == Max2(Max2(end - start, 1) + 50, 500)

\* df.tail(n)
TailRows(sq, n) == IF Len(sq) > n THEN SubSeq(sq, Len(sq) - n + 1, Len(sq)) ELSE sq

\* The rows of a frame whose timestamp lies in [from, to].
Between(frame, from, to) ==
    LET Inside(t) == t >= from /\ t <= to
    IN  Frame(SelectSeq(frame.index, Inside), frame.columns)

\* A handler that narrows its own cached frame to the request and hands it
\* out: what the caller writes lands in the cache.
GetHistoricalDataInPlace(start, end, limit) ==
    LET inside == Between(handler_data, start, end)
    IN  [frame |-> Frame(TailRows(inside.index, limit), inside.columns), shares_cache |-> TRUE]

\* CachedDataHandler.get_historical_data: a copy of the cached frame,
\* narrowed to [start_date, end_date], at most `limit` last rows.  The frame
\* returned is a new object (shares_cache = FALSE).
GetHistoricalData(start, end, limit) ==
    LET inside == Between(handler_data, start, end)
    IN  [frame |-> Frame(TailRows(inside.index, limit), inside.columns), shares_cache |-> FALSE]

\* The columns calculate_indicators and generate_signals add to the frame
\* they are given (in place).
StrategyColumns(strat) ==
    CASE strat = "sma_cross" -> {"ema_fast", "ema_slow", "signal"}
      [] strat = "atr" -> {"ema_fast", "ema_slow", "atr", "stop_loss_price", "signal"}
      [] strat = "bollinger" -> {"bb_middle", "bb_std", "bb_upper", "bb_lower", "signal"}

WithColumns(frame, columns) == Frame(frame.index, frame.columns \cup columns)

\* strategy_lookback of each strategy: the max of its own windows.
StrategyLookback(strat, fast, slow) ==
    CASE strat = "sma_cross" -> Max2(fast, slow)
      [] strat = "atr" -> Max2(Max2(fast, slow), Max2(atr_window, volatility_lookback))
      [] strat = "bollinger" -> bb_window

\* MACDConfirmationFilter.max_lookback_period
MomentumLookback(config) == config.macd_slow + config.macd_signal

\* BaseStrategy.max_lookback_period of a constructed strategy: max(lookbacks),
\* the list holding strategy_lookback and the lookback of each filter that is
\* not None.
MaxLookbackPeriod(strat, fast, slow, regime, momentum) ==
    LET own == StrategyLookback(strat, fast, slow)
        with_regime == IF regime.class = "None" THEN own ELSE Max2(own, regime.window)
    IN  IF momentum.class = "None" THEN with_regime
        ELSE Max2(with_regime, MomentumLookback(momentum))

\* df.iloc[max_lookback:] when there are more rows than that, df otherwise.
SkipWarmup(frame, lookback) ==
    IF lookback > 0 /\ Len(frame.index) > lookback
    THEN Frame(SubSeq(frame.index, lookback + 1, Len(frame.index)), frame.columns)
    ELSE frame

\* The two ValueError messages of Backtester.run.
NoDataError == "No market data available from the data handler."

EmptyWindowError ==
    "No market data available for the requested window after indicator calculation."

\* What the steps of a run leave alone.
RunUnchanged ==
    UNCHANGED << close, strategy_signal, signal, has_sl_column, stop_loss_column,
                 risk_config, idx, in_position, entry_price, stop_loss_price,
                 take_profit_price, entry_index, sl_exits, tp_exits, branch,
                 strategy_return, equity_curve, strategy_vars, start_ts, end_ts,
                 regime_filter_config, momentum_filter_config, sweep_vars, analysis_vars, live_vars >>

\* The filters and the strategy are constructed (create_strategy).
\* ADXVolatilityFilter does not implement the abstract property
\* max_lookback_period of IMarketRegimeFilter: instantiating it raises
\* TypeError.
CreateStrategy ==
    /\ pc = "create"
    /\ IF regime_filter_config.class = "ADXVolatilityFilter"
       THEN pc' = "raised" /\ error' = "TypeError"
       ELSE pc' = "fetch" /\ error' = error
    /\ UNCHANGED << handler_data, df, fetched, max_lookback, metrics >>
    /\ RunUnchanged

\* Backtester.run, the fetch: the window and its buffer; no bar at all is an
\* error.
FetchData ==
    /\ pc = "fetch"
    /\ LET got == GetHistoricalData(start_ts - buffer_candles, end_ts,
                                    EstimateLimit(start_ts, end_ts) + buffer_limit)
       IN  /\ df' = got.frame
           /\ fetched' = got.frame
           /\ handler_data' = IF got.shares_cache THEN got.frame ELSE handler_data
           /\ IF got.frame.index = <<>>
              THEN pc' = "failed" /\ error' = NoDataError
              ELSE pc' = "signals" /\ error' = error
    /\ UNCHANGED << max_lookback, metrics >>
    /\ RunUnchanged

\* calculate_indicators and generate_signals on the whole fetched frame.  The
\* EMA cross and Bollinger strategies read self.config.long_only after the
\* signal column is written.
GenerateSignals ==
    /\ pc = "signals"
    /\ df' = WithColumns(df, StrategyColumns(strategy))
    /\ IF strategy \in {"sma_cross", "bollinger"} /\ long_only = "missing"
       THEN pc' = "raised" /\ error' = "AttributeError"
       ELSE pc' = "trim" /\ error' = error
    /\ UNCHANGED << handler_data, fetched, max_lookback, metrics >>
    /\ RunUnchanged

\* The warm-up rows are skipped.
TrimWarmup ==
    /\ pc = "trim"
    /\ max_lookback' = MaxLookbackPeriod(strategy, fast_window, slow_window,
                                         regime_filter_config, momentum_filter_config)
    /\ df' = SkipWarmup(df, max_lookback')
    /\ pc' = "window"
    /\ UNCHANGED << handler_data, fetched, error, metrics >>
    /\ RunUnchanged

\* The frame is cut to [start_ts, end_ts]; an empty window is an error.
SliceWindow ==
    /\ pc = "window"
    /\ df' = Between(df, start_ts, end_ts)
    /\ IF df'.index = <<>>
       THEN pc' = "failed" /\ error' = EmptyWindowError
       ELSE pc' = "metrics" /\ error' = error
    /\ UNCHANGED << handler_data, fetched, max_lookback, metrics >>
    /\ RunUnchanged

\* The returns and the metrics are computed on df and returned.
ReturnMetrics ==
    /\ pc = "metrics"
    /\ metrics' = "returned"
    /\ pc' = "returned"
    /\ UNCHANGED << handler_data, df, fetched, max_lookback, error >>
    /\ RunUnchanged

\* A run of a strategy over the bars of a data handler.
InitRun ==
    /\ pc = "create"
    /\ strategy \in Strategies
    /\ long_only \in {"missing", "off"}
    /\ regime_filter_config \in RegimeFilterConfigs
    /\ momentum_filter_config \in MomentumFilterConfigs
    /\ regime_filter = (IF regime_filter_config.class = "None" THEN "none" ELSE "ok")
    /\ momentum_filter = (IF momentum_filter_config.class = "None" THEN "none" ELSE "ok")
    /\ handler_data \in HandlerFrames
    /\ start_ts \in 1..MaxTime
    /\ end_ts \in start_ts..MaxTime
    /\ df = EmptyFrame
    /\ fetched = EmptyFrame
    /\ max_lookback = 0
    /\ error = "none"
    /\ metrics = "none"
    /\ close = <<>>
    /\ strategy_signal = <<>>
    /\ has_sl_column = FALSE
    /\ stop_loss_column = <<>>
    /\ risk_config = NoRisk
    /\ indicators = <<>>
    /\ row = 1
    /\ regime_now = "RANGING"
    /\ histogram_now = 0
    /\ InitLocals
    /\ NoSweep
    /\ NoLive

NextRun ==
    \/ CreateStrategy
    \/ FetchData
    \/ GenerateSignals
    \/ TrimWarmup
    \/ SliceWindow
    \/ ReturnMetrics

SpecRun == InitRun /\ [][NextRun]_vars

\* ============================================================== the sweep
\* StrategyOptimizer: one fetch from the exchange, then one backtest per
\* parameter combination on a CachedDataHandler.

\* Calls of optimize() modelled on one optimizer.
MaxSweeps == 2

\* What the exchange returns to load_data_once: the bars 1..b (an empty
\* answer raises in load_data_once and no sweep starts).
ExchangeFrames ==
    { Frame([i \in 1..b |-> i], OHLCV) : b \in 1..MaxTime }

\* The lists given for fast_window_range and slow_window_range (--fast and
\* --slow take any integers).
FastRanges == { <<0, 2>>, <<1, 2>>, <<2, 3>> }

SlowRanges == { <<1, 2>>, <<2, 3>> }

\* Values of top_n.
TopNs == {1, 2}

\* The optional ranges a call of optimize is given besides the two window
\* ranges: the ATR ranges; the ATR, MACD and max-hold ranges; all six.
SuppliedRanges ==
    LET atr == [NoExtraRanges EXCEPT !.atr_window_range = <<2, 3>>,
                                     !.atr_multiplier_range = <<2>>]
        momentum == [atr EXCEPT !.macd_fast_range = <<2>>, !.max_hold_hours_range = <<24>>]
    IN  { atr, momentum,
          [momentum EXCEPT !.adx_window_range = <<2>>, !.adx_threshold_range = <<25>>] }

\* Sharpe ratios a backtest can yield: NaN when the returns have no
\* deviation (Backtester._compute_metrics), or a number.
SharpeValues == { QNaN, Q(1), Q(2) }

\* The name of base_strategy_config in a sweep ("atr" stands for
\* VolatilityAdjustedStrategy).
SweepStrategies == { "sma_cross", "atr" }

\* list(itertools.product(a, b)): the first list varies slowest.
Product(a, b) ==
    [k \in 1..(Len(a) * Len(b)) |-> << a[((k - 1) \div Len(b)) + 1], b[((k - 1) % Len(b)) + 1] >>]

\* The combinations with no constraint applied.
AllCombinations(fast_range, slow_range) == Product(fast_range, slow_range)

\* valid_combinations = [(fast, slow) for fast, slow in param_combinations
\*                       if fast < slow]
ValidCombinations(fast_range, slow_range) ==
    LET FastBelowSlow(c) == c[1] < c[2]
    IN  SelectSeq(Product(fast_range, slow_range), FastBelowSlow)

\* The optional ranges in the order optimize passes them to
\* itertools.product.
AsList(ranges) ==
    << ranges.atr_window_range, ranges.atr_multiplier_range,
       ranges.adx_window_range, ranges.adx_threshold_range,
       ranges.macd_fast_range, ranges.max_hold_hours_range >>

\* The dimension flags of optimize, as the number of optional ranges the
\* branch taken sweeps: 6 (is_8d_optimization), 5 (is_7d_optimization),
\* 4 (is_6d_optimization), 2 (is_4d_optimization), 0 (the else branch, which
\* is also the branch taken when is_6d_no_adx holds).
SweptExtras(ranges) ==
    LET atr == ranges.atr_window_range # NoRange /\ ranges.atr_multiplier_range # NoRange
        adx == ranges.adx_window_range # NoRange /\ ranges.adx_threshold_range # NoRange
        macd == ranges.macd_fast_range # NoRange
        max_hold == ranges.max_hold_hours_range # NoRange
        is_6d_no_adx == atr /\ macd /\ max_hold /\ ~adx
        is_8d_optimization == atr /\ adx /\ macd /\ max_hold /\ ~is_6d_no_adx
        is_7d_optimization == atr /\ adx /\ macd /\ ~is_8d_optimization /\ ~is_6d_no_adx
        is_6d_optimization == atr /\ adx /\ ~is_7d_optimization /\ ~is_8d_optimization
                                /\ ~is_6d_no_adx
        is_4d_optimization == atr /\ ~is_6d_optimization /\ ~is_7d_optimization
                                /\ ~is_8d_optimization /\ ~is_6d_no_adx
    IN  IF is_8d_optimization THEN 6
        ELSE IF is_7d_optimization THEN 5
        ELSE IF is_6d_optimization THEN 4
        ELSE IF is_4d_optimization THEN 2
        ELSE 0

\* itertools.product of the combinations with one more range.
ProductWith(combos, range) ==
    [k \in 1..(Len(combos) * Len(range)) |->
        combos[((k - 1) \div Len(range)) + 1] \o << range[((k - 1) % Len(range)) + 1] >>]

RECURSIVE ProductAll(_, _)
ProductAll(combos, ranges) ==
    IF ranges = <<>> THEN combos
    ELSE ProductAll(ProductWith(combos, Head(ranges)), Tail(ranges))

\* valid_combinations of optimize: the product of the two window ranges and
\* of the optional ranges of the branch taken, filtered by fast < slow (the
\* filter reads the first two components only, so it is applied to the pairs).
OptimizeCombinations(fast_range, slow_range, ranges) ==
    ProductAll(ValidCombinations(fast_range, slow_range),
               SubSeq(AsList(ranges), 1, SweptExtras(ranges)))

\* The optional arguments the loop of optimize passes to
\* _run_single_backtest for a combination: its components after the two
\* windows, None for the rest.
ExtrasOf(c) ==
    LET At(k) == IF Len(c) >= k THEN c[k] ELSE None
    IN  [ atr_window |-> At(3), atr_multiplier |-> At(4), adx_window |-> At(5),
          adx_threshold |-> At(6), macd_fast |-> At(7), max_hold_hours |-> At(8) ]

\* No optional argument is passed.
NoExtras == ExtrasOf(<<>>)

\* The defaults of macd_slow and macd_signal in _run_single_backtest.
DefaultMacdSlow == 26

DefaultMacdSignal == 9

\* The Sharpe ratio of the backtest of a combination on a phase's window:
\* a function of the loaded prices, fixed for the optimizer by trial_sharpe.
SharpeOf(phase, fast, slow) ==
    trial_sharpe[((fast + slow + (IF phase = "OOS" THEN 1 ELSE 0)) % 3) + 1]

\* _run_single_backtest(fast, slow, start_date, end_date): the strategy is
\* built, Backtester.run fetches from the cached handler, the strategy writes
\* its columns into the frame fetched (ewm raises ValueError for a span
\* below 1), the warm-up is trimmed and the window sliced.  `raised` when any
\* step raises; `window` the bars the metrics are computed on; `cache` the
\* handler's frame afterwards; `extras` the optional keys written into the
\* params of the result.  The regime filter is built from adx_window and
\* adx_threshold, the momentum filter from macd_fast or else from the base
\* configuration; max_hold_hours is given to StrategyConfig, which has no such
\* field.  The swept ATR windows are no shorter than the base one, so the max
\* with the swept window is the lookback of the strategy built.
RunSingleBacktest(fast, slow, extras, from, to, phase) ==
    LET got == GetHistoricalData(from - buffer_candles, to, EstimateLimit(from, to) + buffer_limit)
        regime == IF extras.adx_window # None /\ extras.adx_threshold # None
                  THEN [class |-> "ADXVolatilityFilter", window |-> extras.adx_window]
                  ELSE NoRegimeFilter
        momentum == IF extras.macd_fast # None
                    THEN [class |-> "MACDConfirmationFilter",
                          macd_slow |-> IF momentum_filter_config.class = "None" THEN DefaultMacdSlow
                                        ELSE momentum_filter_config.macd_slow,
                          macd_signal |-> IF momentum_filter_config.class = "None" THEN DefaultMacdSignal
                                          ELSE momentum_filter_config.macd_signal]
                    ELSE momentum_filter_config
        swept_atr == IF strategy = "atr" /\ extras.atr_window # None THEN extras.atr_window ELSE 0
        no_strategy == regime.class = "ADXVolatilityFilter"
        no_data == got.frame.index = <<>>
        no_span == fast < 1 \/ slow < 1
        no_long_only == strategy \in {"sma_cross", "bollinger"} /\ long_only = "missing"
        written == WithColumns(got.frame, StrategyColumns(strategy))
        lookback == Max2(MaxLookbackPeriod(strategy, fast, slow, regime, momentum), swept_atr)
        window == Between(SkipWarmup(written, lookback), from, to)
        raised == no_strategy \/ no_data \/ no_span \/ no_long_only \/ window.index = <<>>
    IN  [ params |-> <<fast, slow>>,
          extras |-> extras,
          phase |-> phase,
          raised |-> raised,
          window |-> IF raised THEN <<>> ELSE window.index,
          sharpe |-> IF raised THEN QNaN ELSE SharpeOf(phase, fast, slow),
          cache |-> IF no_strategy \/ ~got.shares_cache THEN handler_data
                    ELSE IF no_data \/ no_span THEN got.frame
                    ELSE written ]

\* The entry a successful trial adds to the result list.
ResultOf(out) == [params |-> out.params, sharpe |-> out.sharpe]

\* The line of the log a trial leaves.
LogOf(out) ==
    [params |-> out.params, extras |-> out.extras, phase |-> out.phase,
     raised |-> out.raised, window |-> out.window]

\* ---- list.sort(key = Sharpe ratio, reverse = True)
\* The comparison of two float keys: False when either is NaN.
KeyLt(x, y) == QLt(x.sharpe, y.sharpe)

Reverse(sq) == [i \in 1..Len(sq) |-> sq[Len(sq) + 1 - i]]

\* count_run: the length of the run the list starts with, k being the length
\* found so far.
RECURSIVE RunEnd(_, _, _)
RunEnd(sq, k, descending) ==
    IF k = Len(sq) THEN k
    ELSE IF KeyLt(sq[k + 1], sq[k]) = descending THEN RunEnd(sq, k + 1, descending)
    ELSE k

\* binarysort's search: the place of pivot in the sorted prefix sq[l..r-1].
RECURSIVE Bisect(_, _, _, _)
Bisect(sq, pivot, l, r) ==
    IF l >= r THEN l
    ELSE LET p == l + ((r - l) \div 2)
         IN  IF KeyLt(pivot, sq[p]) THEN Bisect(sq, pivot, l, p)
             ELSE Bisect(sq, pivot, p + 1, r)

\* binarysort: sq[1..start-1] is sorted, the rest is inserted one by one.
RECURSIVE BinarySort(_, _)
BinarySort(sq, start) ==
    IF start > Len(sq) THEN sq
    ELSE LET pivot == sq[start]
             at == Bisect(sq, pivot, 1, start)
             moved == SubSeq(sq, 1, at - 1) \o <<pivot>> \o SubSeq(sq, at, start - 1)
                        \o SubSeq(sq, start + 1, Len(sq))
         IN  BinarySort(moved, start + 1)

\* The ascending sort of a list shorter than one minrun: the leading run
\* (reversed when it descends), then binary insertion of the rest.
SortAscending(sq) ==
    IF Len(sq) < 2 THEN sq
    ELSE LET descending == KeyLt(sq[2], sq[1])
             n == RunEnd(sq, 2, descending)
             run == SubSeq(sq, 1, n)
             ordered == (IF descending THEN Reverse(run) ELSE run) \o SubSeq(sq, n + 1, Len(sq))
         IN  BinarySort(ordered, n + 1)

\* reverse = True: the list is reversed, sorted ascending, reversed again.
SortBySharpe(sq) == Reverse(SortAscending(Reverse(sq)))

\* ---- the steps
\* What the steps of a sweep leave alone.
SweepUnchanged ==
    UNCHANGED << close, strategy_signal, signal, has_sl_column, stop_loss_column,
                 risk_config, idx, in_position, entry_price, stop_loss_price,
                 take_profit_price, entry_index, sl_exits, tp_exits, branch,
                 strategy_return, equity_curve, strategy_vars, start_ts, end_ts,
                 regime_filter_config, momentum_filter_config, df, fetched,
                 max_lookback, error, metrics, mode, split_ts, fast_window_range,
                 slow_window_range, extra_ranges, top_n, trial_sharpe, analysis_vars, live_vars >>

\* load_data_once: the one fetch from the exchange.
LoadDataOnce ==
    /\ pc = "load"
    /\ \E frame \in ExchangeFrames : cached_data' = frame
    /\ loads' = loads + 1
    /\ pc' = "optimize"
    /\ SweepUnchanged
    /\ UNCHANGED << handler_data, valid_combinations, total_tests, trial, results,
                    is_results, top_performers, validated_results, trial_log,
                    reported, calls >>

\* optimize / optimize_with_validation up to the loop: the combinations are
\* built and filtered, and the CachedDataHandler is created on a copy of the
\* cached data.
BuildCombinations ==
    /\ pc = "optimize"
    /\ valid_combinations' =
          (IF mode = "standard"
           THEN OptimizeCombinations(fast_window_range, slow_window_range, extra_ranges)
           ELSE ValidCombinations(fast_window_range, slow_window_range))
    /\ total_tests' = Len(valid_combinations')
    /\ handler_data' = cached_data
    /\ trial' = 1
    /\ is_results' = <<>>
    /\ top_performers' = <<>>
    /\ validated_results' = <<>>
    /\ trial_log' = <<>>
    /\ pc' = "trials"
    /\ SweepUnchanged
    /\ UNCHANGED << cached_data, loads, results, reported, calls >>

\* One iteration of the loop of optimize: the backtest of a combination on
\* [start_date, end_date]; an exception is printed and the loop continues.
RunTrial ==
    /\ pc = "trials"
    /\ mode = "standard"
    /\ trial <= total_tests
    /\ LET c == valid_combinations[trial]
           out == RunSingleBacktest(c[1], c[2], ExtrasOf(c), start_ts, end_ts, "")
       IN  /\ handler_data' = out.cache
           /\ results' = (IF out.raised THEN results ELSE Append(results, ResultOf(out)))
           /\ trial_log' = Append(trial_log, LogOf(out))
    /\ trial' = trial + 1
    /\ SweepUnchanged
    /\ UNCHANGED << pc, cached_data, loads, valid_combinations, total_tests, is_results,
                    top_performers, validated_results, reported, calls >>

\* The end of optimize: self.results is sorted by Sharpe ratio and the
\* number of successful runs is printed.
FinishOptimize ==
    /\ pc = "trials"
    /\ mode = "standard"
    /\ trial > total_tests
    /\ results' = SortBySharpe(results)
    /\ reported' = [successes |-> Len(results'), total |-> total_tests]
    /\ calls' = calls + 1
    /\ pc' = "finished"
    /\ SweepUnchanged
    /\ UNCHANGED << handler_data, cached_data, loads, valid_combinations, total_tests,
                    trial, is_results, top_performers, validated_results, trial_log >>

\* optimize is called again on the same optimizer.
OptimizeAgain ==
    /\ pc = "finished"
    /\ mode = "standard"
    /\ calls < MaxSweeps
    /\ pc' = "optimize"
    /\ SweepUnchanged
    /\ UNCHANGED << handler_data, cached_data, loads, valid_combinations, total_tests,
                    trial, results, is_results, top_performers, validated_results,
                    trial_log, reported, calls >>

\* One iteration of the in-sample loop of optimize_with_validation: the
\* backtest of a combination with start_date, split_date.
RunInSampleTrial ==
    /\ pc = "trials"
    /\ mode = "walk_forward"
    /\ trial <= total_tests
    /\ LET c == valid_combinations[trial]
           out == RunSingleBacktest(c[1], c[2], NoExtras, start_ts, split_ts, "IS")
       IN  /\ handler_data' = out.cache
           /\ is_results' = (IF out.raised THEN is_results ELSE Append(is_results, ResultOf(out)))
           /\ trial_log' = Append(trial_log, LogOf(out))
    /\ trial' = trial + 1
    /\ SweepUnchanged
    /\ UNCHANGED << pc, cached_data, loads, valid_combinations, total_tests, results,
                    top_performers, validated_results, reported, calls >>

\* The end of the in-sample phase: is_results is sorted by Sharpe ratio, the
\* successful runs are printed, and the first min(top_n, len) are taken; with
\* no result the call returns [].
SelectTopPerformers ==
    /\ pc = "trials"
    /\ mode = "walk_forward"
    /\ trial > total_tests
    /\ is_results' = SortBySharpe(is_results)
    /\ reported' = [successes |-> Len(is_results'), total |-> total_tests]
    /\ IF is_results' = <<>>
       THEN /\ top_performers' = <<>>
            /\ calls' = calls + 1
            /\ pc' = "finished"
       ELSE /\ top_performers' = SubSeq(is_results', 1, IF top_n <= Len(is_results') THEN top_n ELSE Len(is_results'))
            /\ calls' = calls
            /\ pc' = "validate"
    /\ trial' = 1
    /\ SweepUnchanged
    /\ UNCHANGED << handler_data, cached_data, loads, valid_combinations, total_tests,
                    results, validated_results, trial_log >>

\* One iteration of the out-of-sample loop: the backtest of a top performer
\* with split_date, end_date.
ValidateTrial ==
    /\ pc = "validate"
    /\ trial <= Len(top_performers)
    /\ LET c == top_performers[trial].params
           out == RunSingleBacktest(c[1], c[2], NoExtras, split_ts, end_ts, "OOS")
       IN  /\ handler_data' = out.cache
           /\ validated_results' =
                 (IF out.raised THEN validated_results
                  ELSE Append(validated_results,
                              [params |-> c, IS_sharpe |-> top_performers[trial].sharpe,
                               OOS_sharpe |-> out.sharpe]))
           /\ trial_log' = Append(trial_log, LogOf(out))
    /\ trial' = trial + 1
    /\ SweepUnchanged
    /\ UNCHANGED << pc, cached_data, loads, valid_combinations, total_tests, results,
                    is_results, top_performers, reported, calls >>

\* The end of optimize_with_validation: the validated runs are printed and
\* stored in self.results.
FinishValidation ==
    /\ pc = "validate"
    /\ trial > Len(top_performers)
    /\ reported' = [successes |-> Len(validated_results), total |-> Len(top_performers)]
    /\ results' = validated_results
    /\ calls' = calls + 1
    /\ pc' = "finished"
    /\ SweepUnchanged
    /\ UNCHANGED << handler_data, cached_data, loads, valid_combinations, total_tests,
                    trial, is_results, top_performers, validated_results, trial_log >>

\* A new optimizer: StrategyOptimizer.__init__ has checked
\* start_date < split_date < end_date for a walk-forward run.  The sweeps
\* are called with the two window ranges, and optimize also with optional
\* ranges.
InitSweep ==
    /\ pc = "load"
    /\ mode \in {"standard", "walk_forward"}
    /\ strategy \in SweepStrategies
    /\ long_only = "missing"
    /\ regime_filter_config = NoRegimeFilter
    /\ momentum_filter_config = NoMomentumFilter
    /\ regime_filter = "none"
    /\ momentum_filter = "none"
    /\ start_ts = 1
    /\ end_ts \in 3..MaxTime
    /\ split_ts \in 2..(end_ts - 1)
    /\ \/ /\ extra_ranges = NoExtraRanges
          /\ fast_window_range \in FastRanges
          /\ slow_window_range \in SlowRanges
          /\ top_n \in TopNs
          /\ trial_sharpe \in [1..3 -> SharpeValues]
       \/ /\ extra_ranges \in SuppliedRanges
          /\ mode = "standard"
          /\ split_ts = 2
          /\ fast_window_range = <<1, 2>>
          /\ slow_window_range = <<2, 3>>
          /\ top_n = 1
          /\ trial_sharpe = << Q(1), Q(2), QNaN >>
    /\ cached_data = EmptyFrame
    /\ handler_data = EmptyFrame
    /\ loads = 0
    /\ valid_combinations = <<>>
    /\ total_tests = 0
    /\ trial = 1
    /\ results = <<>>
    /\ is_results = <<>>
    /\ top_performers = <<>>
    /\ validated_results = <<>>
    /\ trial_log = <<>>
    /\ reported = [successes |-> 0, total |-> 0]
    /\ calls = 0
    /\ NoLive
    /\ df = EmptyFrame
    /\ fetched = EmptyFrame
    /\ max_lookback = 0
    /\ error = "none"
    /\ metrics = "none"
    /\ close = <<>>
    /\ strategy_signal = <<>>
    /\ has_sl_column = FALSE
    /\ stop_loss_column = <<>>
    /\ risk_config = NoRisk
    /\ indicators = <<>>
    /\ row = 1
    /\ regime_now = "RANGING"
    /\ histogram_now = 0
    /\ InitLocals
    /\ sharpe_is = QNaN
    /\ sharpe_oos = QNaN
    /\ robustness_factor = QNaN

NextSweep ==
    \/ LoadDataOnce
    \/ BuildCombinations
    \/ RunTrial
    \/ FinishOptimize
    \/ OptimizeAgain
    \/ RunInSampleTrial
    \/ SelectTopPerformers
    \/ ValidateTrial
    \/ FinishValidation

SpecSweep == InitSweep /\ [][NextSweep]_vars

\* ============================================================ the analysis
\* analyze_optimization.calculate_robustness_factor.

\* The Sharpe ratios given to the function.
SharpeInputs ==
    { QNaN, Q(0 - 2), Q(0 - 1), <<0 - 1, 100>>, Q(0), <<1, 200>>, <<1, 100>>,
      <<1, 50>>, <<1, 2>>, Q(1), Q(2), Q(3) }

\* The division of two floats (the divisor is never zero where it is used).
QDiv(a, b) == IF IsNaN(a) \/ IsNaN(b) THEN QNaN ELSE Norm(<<a[1] * b[2], a[2] * b[1]>>)

\* The Sharpe_IS at or below which the factor is 0 (0.01).
MinSharpeIS == <<1, 100>>

\* The function with its guard on Sharpe_IS at zero.
RobustnessFactorGuardAtZero(is, oos) ==
    IF QLe(oos, Q(0)) THEN Q(0)
    ELSE IF QLe(is, Q(0)) THEN Q(0)
    ELSE QMul(oos, QDiv(oos, is))

\* calculate_robustness_factor(sharpe_is, sharpe_oos)
RobustnessFactor(is, oos) ==
    IF QLe(oos, Q(0)) THEN Q(0)
    ELSE IF QLe(is, MinSharpeIS) THEN Q(0)
    ELSE QMul(oos, QDiv(oos, is))

\* analyze_results computes the factor of a validated result.
CalculateRobustnessFactor ==
    /\ pc = "analyze"
    /\ robustness_factor' = RobustnessFactor(sharpe_is, sharpe_oos)
    /\ pc' = "analyzed"
    /\ UNCHANGED << close, strategy_signal, signal, has_sl_column, stop_loss_column,
                    risk_config, idx, in_position, entry_price, stop_loss_price,
                    take_profit_price, entry_index, sl_exits, tp_exits, branch,
                    strategy_return, equity_curve, strategy_vars, run_vars,
                    sweep_vars, sharpe_is, sharpe_oos, live_vars >>

\* A validated result with its two Sharpe ratios.
InitAnalysis ==
    /\ pc = "analyze"
    /\ sharpe_is \in SharpeInputs
    /\ sharpe_oos \in SharpeInputs
    /\ robustness_factor = QNaN
    /\ close = <<>>
    /\ strategy_signal = <<>>
    /\ has_sl_column = FALSE
    /\ stop_loss_column = <<>>
    /\ risk_config = NoRisk
    /\ InitLocals
    /\ NoStrategy
    /\ NoRun
    /\ mode = "none"
    /\ cached_data = EmptyFrame
    /\ loads = 0
    /\ split_ts = 0
    /\ fast_window_range = <<>>
    /\ slow_window_range = <<>>
    /\ extra_ranges = NoExtraRanges
    /\ top_n = 0
    /\ trial_sharpe = <<>>
    /\ valid_combinations = <<>>
    /\ total_tests = 0
    /\ trial = 1
    /\ results = <<>>
    /\ is_results = <<>>
    /\ top_performers = <<>>
    /\ validated_results = <<>>
    /\ trial_log = <<>>
    /\ reported = [successes |-> 0, total |-> 0]
    /\ calls = 0
    /\ NoLive

NextAnalysis == CalculateRobustnessFactor

SpecAnalysis == InitAnalysis /\ [][NextAnalysis]_vars

\* ================================================= the executor, the bot
\* Bounds of the live models.
MaxTrades == 3

MaxCycles == 4

\* Trading pairs; the bot trades config.strategy.symbol.
Symbols == { "BTC/USDT", "ETH/USDT" }

BotSymbol == "BTC/USDT"

\* config.risk.max_position_size_usd
max_position_size_usd == 200

\* The latest close of a cycle.
Prices == { 100, 200 }

\* The quantities of the orders given to an executor.
Quantities == { Q(1), Q(2) }

\* 1e-8, the tolerance of is_flat.
FlatTolerance == <<1, 100000000>>

\* The row trade_repository.create persists.
Trade(symbol, side, price, quantity) ==
    [ symbol |-> symbol, side |-> side, price |-> price, quantity |-> quantity ]

\* trade_repository.get_by_symbol
GetBySymbol(rows, symbol) ==
    LET OfSymbol(t) == t.symbol = symbol
    IN  SelectSeq(rows, OfSymbol)

\* sum(t.quantity for t in rows if t.side == side)
RECURSIVE TotalQuantity(_, _)
TotalQuantity(rows, side) ==
    IF rows = <<>> THEN Q(0)
    ELSE LET rest == TotalQuantity(Tail(rows), side)
         IN  IF Head(rows).side = side THEN QAdd(Head(rows).quantity, rest) ELSE rest

\* MockExecutor._calculate_net_position: buys minus sells of the rows persisted.
CalculateNetPosition(rows, symbol) ==
    QSub(TotalQuantity(GetBySymbol(rows, symbol), "BUY"),
         TotalQuantity(GetBySymbol(rows, symbol), "SELL"))

\* MockExecutor._update_position_cache: a symbol not in the cache starts at 0.0.
UpdatePositionCache(cache, symbol, side, quantity) ==
    LET held == IF symbol \in DOMAIN cache THEN cache[symbol] ELSE Q(0)
    IN  (symbol :> (IF side = "BUY" THEN QAdd(held, quantity) ELSE QSub(held, quantity))) @@ cache

\* MockExecutor.get_position: the cached net quantity, or the one calculated
\* from the rows and then cached; the totals are read from the rows.
GetPositionOf(cache, rows, symbol) ==
    LET net_quantity == IF symbol \in DOMAIN cache THEN cache[symbol]
                        ELSE CalculateNetPosition(rows, symbol)
    IN  [ cache |-> (symbol :> net_quantity) @@ cache,
          return |-> [ symbol |-> symbol,
                       net_quantity |-> net_quantity,
                       total_buys |-> TotalQuantity(GetBySymbol(rows, symbol), "BUY"),
                       total_sells |-> TotalQuantity(GetBySymbol(rows, symbol), "SELL"),
                       is_flat |-> QLt(QAbs(net_quantity), FlatTolerance) ] ]

\* What the executor and the bot leave alone.
LiveUnchanged ==
    UNCHANGED << close, strategy_signal, signal, has_sl_column, stop_loss_column,
                 risk_config, idx, in_position, entry_price, stop_loss_price,
                 take_profit_price, entry_index, sl_exits, tp_exits, branch,
                 strategy_return, equity_curve, strategy_vars, run_vars,
                 sweep_vars, analysis_vars >>

ExecutorStates == { "executor", "execute_order", "get_position", "reset_position_cache" }

\* MockExecutor.execute_order: the trade is persisted and the cache updated.
ExecuteOrder ==
    /\ pc \in ExecutorStates
    /\ Len(trades) < MaxTrades
    /\ \E symbol \in Symbols, side \in {"BUY", "SELL"}, price \in Prices, quantity \in Quantities :
          /\ trades' = Append(trades, Trade(symbol, side, price, quantity))
          /\ position_cache' = UpdatePositionCache(position_cache, symbol, side, quantity)
    /\ pc' = "execute_order"
    /\ LiveUnchanged
    /\ UNCHANGED << last_signal_value, position, latest_signal, latest_close,
                    order_side, cycle_error, iteration, saved_signals >>

\* MockExecutor.get_position
GetPosition ==
    /\ pc \in ExecutorStates
    /\ \E symbol \in Symbols :
          LET got == GetPositionOf(position_cache, trades, symbol)
          IN  /\ position' = got.return
              /\ position_cache' = got.cache
    /\ pc' = "get_position"
    /\ LiveUnchanged
    /\ UNCHANGED << trades, last_signal_value, latest_signal, latest_close,
                    order_side, cycle_error, iteration, saved_signals >>

\* MockExecutor.reset_position_cache
ResetPositionCache ==
    /\ pc \in ExecutorStates
    /\ position_cache' = <<>>
    /\ pc' = "reset_position_cache"
    /\ LiveUnchanged
    /\ UNCHANGED << trades, last_signal_value, position, latest_signal, latest_close,
                    order_side, cycle_error, iteration, saved_signals >>

\* The rows a repository holds when an executor is created over it.
StoredTrades ==
    { <<>>, << Trade(BotSymbol, "BUY", 100, Q(2)) >> }

\* Everything but the bot and the executor at rest.
NoBacktest ==
    /\ close = <<>>
    /\ strategy_signal = <<>>
    /\ has_sl_column = FALSE
    /\ stop_loss_column = <<>>
    /\ risk_config = NoRisk
    /\ InitLocals
    /\ NoStrategy
    /\ NoRun
    /\ NoSweep

\* MockExecutor.__init__: an empty cache over the repository given.
InitExecutor ==
    /\ pc = "executor"
    /\ trades \in StoredTrades
    /\ position_cache = <<>>
    /\ last_signal_value = NoLastSignal
    /\ position = NoPosition
    /\ latest_signal = HOLD
    /\ latest_close = 0
    /\ order_side = "none"
    /\ cycle_error = "none"
    /\ iteration = 0
    /\ saved_signals = 0
    /\ NoBacktest

NextExecutor ==
    \/ ExecuteOrder
    \/ GetPosition
    \/ ResetPositionCache

SpecExecutor == InitExecutor /\ [][NextExecutor]_vars

\* ---- TradingBot
\* The condition of the BUY branch without the position.
ShouldBuyAnyPosition(sig, is_flat) == sig = BUY

\* _execute_trading_logic: signal == 1 and is_flat
ShouldBuy(sig, is_flat) == sig = BUY /\ is_flat

\* _execute_trading_logic: signal == -1 and net_position > 0
ShouldSell(sig, net_position) == sig = SELL /\ QGt(net_position, Q(0))

\* _execute_trading_logic up to the order: the side of the order to submit,
\* "none" when the signal is unchanged or needs no action.
SideToExecute(sig, net_position, is_flat, last) ==
    IF sig = last THEN "none"
    ELSE IF ShouldBuy(sig, is_flat) THEN "BUY"
    ELSE IF ShouldSell(sig, net_position) THEN "SELL"
    ELSE "none"

\* _calculate_order_quantity
CalculateOrderQuantity(price) == QDiv(Q(max_position_size_usd), Q(price))

\* One iteration of the loop of start: run_once, and the exception it ends
\* with caught.  With no data the cycle returns at once.  Otherwise the
\* latest signal and close are read, the position is asked of the executor,
\* last_signal_value is set to a changed signal, the order the logic asks for
\* is submitted (execute_order persists it, or raises and run_once ends), and
\* the signal is saved (a failure to save is logged).
RunOnce ==
    /\ pc = "live"
    /\ iteration < MaxCycles
    /\ iteration' = iteration + 1
    /\ \E empty \in BOOLEAN, sig \in Signals, price \in Prices, raises \in BOOLEAN, saved \in BOOLEAN :
          IF empty
          THEN /\ latest_signal' = HOLD
               /\ latest_close' = 0
               /\ position' = NoPosition
               /\ order_side' = "none"
               /\ cycle_error' = "none"
               /\ UNCHANGED << trades, position_cache, last_signal_value, saved_signals >>
          ELSE LET got == GetPositionOf(position_cache, trades, BotSymbol)
                   side == SideToExecute(sig, got.return.net_quantity, got.return.is_flat,
                                         last_signal_value)
                   quantity == CalculateOrderQuantity(price)
                   raised == side # "none" /\ raises
               IN  /\ latest_signal' = sig
                   /\ latest_close' = price
                   /\ position' = got.return
                   /\ last_signal_value' = sig
                   /\ order_side' = side
                   /\ cycle_error' = (IF raised THEN "execute_order" ELSE "none")
                   /\ IF side = "none" \/ raised
                      THEN /\ trades' = trades
                           /\ position_cache' = got.cache
                      ELSE /\ trades' = Append(trades, Trade(BotSymbol, side, price, quantity))
                           /\ position_cache' = UpdatePositionCache(got.cache, BotSymbol, side, quantity)
                   /\ saved_signals' = (IF raised \/ ~saved THEN saved_signals ELSE saved_signals + 1)
    /\ UNCHANGED pc
    /\ LiveUnchanged

\* TradingBot.__init__ with a new MockExecutor over the repository.
InitBot ==
    /\ pc = "live"
    /\ trades \in StoredTrades
    /\ position_cache = <<>>
    /\ last_signal_value = NoLastSignal
    /\ position = NoPosition
    /\ latest_signal = HOLD
    /\ latest_close = 0
    /\ order_side = "none"
    /\ cycle_error = "none"
    /\ iteration = 0
    /\ saved_signals = 0
    /\ NoBacktest

NextBot == RunOnce

SpecBot == InitBot /\ [][NextBot]_vars

\* =================================================================== claims
\* The bar the loop has just processed.
LastBar == idx - 1

\* Bars the open position has been held when bar i is processed.
BarsHeld(i) == i - entry_index

\* The exit conditions of the spec on bar i, for the position open before it.
StopLossCond(i) == in_position /\ close[i] * PriceScale <= stop_loss_price

TakeProfitCond(i) == in_position /\ close[i] * PriceScale >= take_profit_price

MaxHoldCond(i) == in_position /\ BarsHeld(i) >= max_hold_period

SellCond(i) == in_position /\ signal[i] = SELL

ForcedBranches == {"STOP_LOSS", "TAKE_PROFIT"}

\* C1: when several exit conditions hold on one bar, the exit applied follows
\* STOP_LOSS > TAKE_PROFIT > MAX_HOLD > STRATEGY_SIGNAL: an exit reason is
\* never applied on a bar on which a higher-priority condition also holds.
C1_ExitPriority ==
    [][ pc = "enforce" =>
          /\ (branch' = "TAKE_PROFIT" => ~StopLossCond(idx))
          /\ (branch' = "STRATEGY_SIGNAL" =>
                ~StopLossCond(idx) /\ ~TakeProfitCond(idx) /\ ~MaxHoldCond(idx)) ]_vars

\* C2: for a position entered at close E with no strategy-provided stop, a bar
\* on which the position is still open is the bar of the stop-loss exit
\* exactly when its close is <= E * (1 - stop_loss_pct); the exit leaves the
\* position flat and writes SELL on that bar.
C2_StopLossOnTheBar ==
    [][ (pc = "enforce" /\ in_position /\ ~HasStrategyStop(entry_index)) =>
          /\ (close[idx] * PriceScale <= entry_price * (PriceScale - risk_config.stop_loss_pct)
                <=> branch' = "STOP_LOSS")
          /\ (branch' = "STOP_LOSS" =>
                ~in_position' /\ signal'[idx] = SELL /\ sl_exits' = sl_exits + 1) ]_vars

C2_Witness ==
    /\ branch = "STOP_LOSS"
    /\ ~in_position
    /\ risk_config.stop_loss_pct = 2
    /\ ~HasStrategyStop(entry_index)
    /\ close[entry_index] = 100
    /\ close[LastBar] = 98
    /\ \A k \in (entry_index + 1)..(LastBar - 1) : close[k] > 98

\* C3: no position stays open for max_hold_period bars: after the bar on which
\* bars_held reaches max_hold_period the position is flat.
C3_MaxHoldForcesExit ==
    (idx > 1 /\ in_position) => BarsHeld(LastBar) < max_hold_period

\* C4: a bar on which the position is forced flat ends flat, with an exit
\* signal, and without a new entry, whatever the strategy's signal on it.
C4_NoReentryOnExitBar ==
    [][ (pc = "enforce" /\ branch' \in ForcedBranches /\ idx' = idx + 1) =>
          /\ ~in_position'
          /\ entry_index' = entry_index
          /\ entry_price' = 0
          /\ signal'[idx] = SELL ]_vars

C4_Witness ==
    /\ branch \in ForcedBranches
    /\ idx > 1
    /\ strategy_signal[LastBar] = BUY
    /\ ~in_position

\* C5: a BUY on a bar where the position is already open changes nothing: the
\* bar does what it would do without the BUY (a forced exit if a level is hit,
\* nothing otherwise), never an entry, and an untouched position keeps its
\* entry price, stop-loss and take-profit.
C5_BuyWhileLongIgnored ==
    [][ (pc = "enforce" /\ in_position /\ signal[idx] = BUY) =>
          /\ branch' \in ForcedBranches \cup {"NONE"}
          /\ entry_index' = entry_index
          /\ (branch' \in ForcedBranches => ~in_position')
          /\ (branch' = "NONE" =>
                /\ in_position'
                /\ entry_price' = entry_price
                /\ stop_loss_price' = stop_loss_price
                /\ take_profit_price' = take_profit_price
                /\ signal' = signal) ]_vars

C5_Witness ==
    /\ branch = "NONE"
    /\ idx > 1
    /\ in_position
    /\ entry_index < LastBar
    /\ strategy_signal[LastBar] = BUY
    /\ entry_price = close[entry_index]

\* The closed form of the lagged return of bar t.
LaggedReturn(c, sig, t) ==
    IF t = 1 THEN Q(0) ELSE Norm(<<sig[t - 1] * (c[t] - c[t - 1]), c[t - 1]>>)

\* C6: strategy_return[t] = signal[t-1] * (close[t]/close[t-1] - 1) for t >= 1
\* and 0 on the first bar; the returns up to bar t do not change when the
\* signal of bar t changes, and the equity up to bar t is that of the returns
\* up to bar t alone; closes [100,110,121,100] with signals
\* [BUY,HOLD,SELL,HOLD] give returns [0, 1/10, 0, 21/121].
C6_OneBarLag ==
    pc = "done" =>
      /\ Len(strategy_return) = Len(close)
      /\ \A t \in 1..Len(close) : strategy_return[t] = LaggedReturn(close, signal, t)
      /\ \A t \in 1..Len(close) : \A s \in Signals \ {signal[t]} :
            SubSeq(StrategyReturn(close, [signal EXCEPT ![t] = s]), 1, t)
              = SubSeq(strategy_return, 1, t)
      /\ \A t \in 1..Len(close) :
            EquityCurve(SubSeq(strategy_return, 1, t)) = SubSeq(equity_curve, 1, t)
      /\ (close = <<100, 110, 121, 100>> /\ signal = <<BUY, HOLD, SELL, HOLD>>
            => strategy_return = << <<0, 1>>, <<1, 10>>, <<0, 1>>, <<21, 121>> >>)

C6_Witness ==
    /\ pc = "done"
    /\ close = <<100, 110, 121, 100>>
    /\ signal = <<BUY, HOLD, SELL, HOLD>>
    /\ strategy_return[4] = <<21, 121>>
    /\ equity_curve[4] = <<71, 55>>

\* C7 as stated: closes [100,110,121] with signals [BUY,HOLD,HOLD] give the
\* returns [0, 0.10, 0.10] and the final equity 1.21.
C7_Original ==
    (pc = "done" /\ close = <<100, 110, 121>> /\ signal = <<BUY, HOLD, HOLD>>) =>
      /\ strategy_return = << <<0, 1>>, <<1, 10>>, <<1, 10>> >>
      /\ equity_curve[3] = <<121, 100>>

\* C7 amended: closes [100,110,121] with signals [BUY,HOLD,HOLD] give the
\* returns [0, 0.10, 0] and the final equity 1.10; the returns [0, 0.10, 0.10]
\* and the final equity 1.21 are those of the signals [BUY,BUY,HOLD].
C7_BuyHoldExample ==
    (pc = "done" /\ close = <<100, 110, 121>>) =>
      /\ (signal = <<BUY, HOLD, HOLD>> =>
            /\ strategy_return = << <<0, 1>>, <<1, 10>>, <<0, 1>> >>
            /\ equity_curve[3] = <<11, 10>>)
      /\ (signal = <<BUY, BUY, HOLD>> =>
            /\ strategy_return = << <<0, 1>>, <<1, 10>>, <<1, 10>> >>
            /\ equity_curve[3] = <<121, 100>>)

C7_Witness ==
    /\ pc = "done"
    /\ close = <<100, 110, 121>>
    /\ signal = <<BUY, HOLD, HOLD>>
    /\ equity_curve = << <<1, 1>>, <<11, 10>>, <<11, 10>> >>

\* ---------------------------------------------------------------- C8
\* The rows the assignment has written so far.
WrittenRows == IF pc = "indicators" THEN {} ELSE 1..(row - 1)

\* The trigger of a direction on row i, per strategy, before any filter.
Trigger(direction, i) ==
    CASE strategy = "sma_cross" -> IF direction = BUY THEN GoldenCross(i) ELSE DeathCross(i)
      [] strategy = "atr" -> IF direction = BUY THEN GoldenCross(i) /\ HasVolatility(i)
                             ELSE DeathCross(i)
      [] strategy = "bollinger" -> IF direction = BUY THEN LongTrigger(i) ELSE ShortTrigger(i)

\* On no row of any frame do the BUY trigger and the SELL trigger of a
\* strategy hold together: the case C8 speaks of (both conditions true on
\* one bar) is not reached by any of the three strategies.
BuySellExclusive == \A i \in WrittenRows : ~(Trigger(BUY, i) /\ Trigger(SELL, i))

\* ---------------------------------------------------------------- C9
\* The two series whose relationship a strategy watches for its BUY
\* crossover, as "the first is above the second on row i": fast EMA above
\* slow EMA for the EMA strategies, lower band above close for Bollinger.
BuyRelation(i) ==
    IF strategy = "bollinger" THEN BelowLower(i)
    ELSE QGt(indicators.ema_fast[i], indicators.ema_slow[i])

\* The same for the SELL crossover: fast EMA below slow EMA, close above the
\* upper band.
SellRelation(i) ==
    IF strategy = "bollinger" THEN AboveUpper(i)
    ELSE QLt(indicators.ema_fast[i], indicators.ema_slow[i])

\* Both series are defined on row i.
RelationDefined(i) ==
    IF strategy = "bollinger" THEN BandsDefined(i)
    ELSE ~IsNaN(indicators.ema_fast[i]) /\ ~IsNaN(indicators.ema_slow[i])

\* C9: a BUY is emitted only on a bar where the relationship changes (on the
\* bar before, fast <= slow; on the bar, fast > slow), a SELL only where it
\* changes the other way (fast >= slow before, fast < slow on the bar), and
\* between two BUY signals there is a bar on which fast <= slow; for the
\* Bollinger strategy the pair is lower band and close (upper band and close
\* for SELL).
C9_CrossoverOnTransitionBar ==
    /\ \A i \in WrittenRows :
          /\ signal[i] = BUY =>
                /\ i > 1 /\ RelationDefined(i - 1)
                /\ ~BuyRelation(i - 1) /\ BuyRelation(i)
          /\ signal[i] = SELL =>
                /\ i > 1 /\ RelationDefined(i - 1)
                /\ ~SellRelation(i - 1) /\ SellRelation(i)
    /\ \A i, j \in WrittenRows :
          (i < j /\ signal[i] = BUY /\ signal[j] = BUY) =>
              \E k \in (i + 1)..(j - 1) : RelationDefined(k) /\ ~BuyRelation(k)

\* The EMA crossover strategy has emitted two BUY signals with a SELL between
\* them.
C9_Witness ==
    /\ strategy = "sma_cross"
    /\ row > Len(close)
    /\ \E i, j \in WrittenRows :
          /\ i + 1 < j
          /\ signal[i] = BUY /\ signal[j] = BUY
          /\ \A k \in (i + 1)..(j - 1) : signal[k] # BUY

\* ---------------------------------------------------------------- C10
\* The verdict of the filters that did not fail, on the row just written.
RemainingFilters(direction) ==
    /\ regime_filter = "ok" => RegimeOk(strategy, direction, regime_now')
    /\ momentum_filter = "ok" => IsEntryValid(direction, histogram_now')

\* C10: when an attached filter raises while a strategy evaluates it, the
\* generation goes on (it does not end in the exception) and the signal of
\* each row is the one of the trigger and of the filters that did not fail.
C10_FilterFailsOpen ==
    [][(/\ pc = "rows"
        /\ strategy \in {"atr", "bollinger"}
        /\ (regime_filter = "raises" \/ momentum_filter = "raises"))
       => /\ pc' # "raised"
          /\ signal'[row] = IF Trigger(BUY, row) /\ RemainingFilters(BUY) THEN BUY
                            ELSE IF Trigger(SELL, row) /\ RemainingFilters(SELL) THEN SELL
                            ELSE HOLD]_vars

\* The volatility-adjusted strategy, with its regime filter raising and no
\* other filter, has finished and emitted a BUY.
C10_Witness ==
    /\ strategy = "atr"
    /\ regime_filter = "raises"
    /\ momentum_filter = "none"
    /\ pc = "generated"
    /\ \E i \in 1..Len(signal) : signal[i] = BUY

\* ---------------------------------------------------------------- C11
\* C11: with a regime and/or momentum filter attached, a strategy emits an
\* entry signal of a direction on a bar only if its trigger fired on the bar
\* and every attached filter that evaluates marks the bar valid for that
\* direction.
C11_EntryNeedsTriggerAndFilters ==
    [][pc = "rows" =>
         \A direction \in {BUY, SELL} :
            signal'[row] = direction =>
               /\ Trigger(direction, row)
               /\ regime_filter = "ok" => RegimeOk(strategy, direction, regime_now')
               /\ momentum_filter = "ok" => IsEntryValid(direction, histogram_now')]_vars

\* ---------------------------------------------------------------- C12
\* A sequence without its first n entries (nothing is left when n >= Len).
DropFirst(sq, n) == [i \in 1..(IF Len(sq) > n THEN Len(sq) - n ELSE 0) |-> sq[i + n]]

\* max_lookback_period of the strategy of the run.
RunLookback ==
    MaxLookbackPeriod(strategy, fast_window, slow_window,
                      regime_filter_config, momentum_filter_config)

\* The warm-up prefix of the fetched series: its first max_lookback_period
\* bars.
WarmupPrefix ==
    { fetched.index[k] : k \in 1..(IF Len(fetched.index) > RunLookback
                                   THEN RunLookback ELSE Len(fetched.index)) }

\* C12: whatever the number of bars fetched, the run removes exactly
\* max_lookback_period leading bars of the fetched series, and the results
\* are computed on a window that holds no bar of the warm-up prefix.
C12_WarmupTrimmed ==
    /\ pc = "window" => df.index = DropFirst(fetched.index, max_lookback)
    /\ pc \in {"metrics", "returned"} =>
          \A i \in 1..Len(df.index) : df.index[i] \notin WarmupPrefix

\* ---------------------------------------------------------------- C13
\* The lookback the claim gives a filter: the spec's 2 x adx_window for the
\* ADX regime filter, the filter's own max_lookback_period otherwise.
ClaimedRegimeLookback ==
    IF regime_filter_config.class = "ADXVolatilityFilter"
    THEN 2 * regime_filter_config.window
    ELSE regime_filter_config.window

ClaimedLookback ==
    Max2(StrategyLookback(strategy, fast_window, slow_window),
         Max2(ClaimedRegimeLookback,
              momentum_filter_config.macd_slow + momentum_filter_config.macd_signal))

\* C13: for every strategy and every combination of attached filters the
\* strategy exists with its filters and its max_lookback_period is the max
\* of its own windows and the lookback of each attached filter.
C13_LookbackIsMax ==
    pc # "create" =>
        /\ error # "TypeError"
        /\ pc \in {"window", "metrics", "returned"} => max_lookback = ClaimedLookback

\* ---------------------------------------------------------------- C14
\* What is left of the fetched bars inside [start_ts, end_ts] once the
\* warm-up prefix is trimmed.
TrimmedWindow ==
    Between(Frame(DropFirst(fetched.index, RunLookback), fetched.columns), start_ts, end_ts)

\* C14: a run that got no bar at all ends in one error, a run that got bars
\* of which none remains in [start, end] after the warm-up trimming ends in
\* another error, and neither returns metrics.
C14_DistinctErrors ==
    /\ NoDataError # EmptyWindowError
    /\ pc \in {"failed", "returned"} =>
          /\ fetched.index = <<>> => error = NoDataError /\ metrics = "none"
          /\ (fetched.index # <<>> /\ TrimmedWindow.index = <<>>) =>
                error = EmptyWindowError /\ metrics = "none"

\* ---------------------------------------------------------------- C15
\* The trials of a phase in the log of the current sweep.
Attempted(phase) == { i \in DOMAIN trial_log : trial_log[i].phase = phase }

Succeeded(phase) == { i \in Attempted(phase) : ~trial_log[i].raised }

Failed(phase) == { i \in Attempted(phase) : trial_log[i].raised }

\* C15: a trial that raises does not end the sweep: every combination is
\* attempted, the result of every trial that did not raise is kept, and the
\* sweep reports the successful trials out of the trials attempted.
C15_FailedTrialIsolated ==
    /\ (pc = "finished" /\ mode = "standard") =>
          /\ Cardinality(Attempted("")) = total_tests
          /\ Len(results) = Cardinality(Succeeded(""))
          /\ reported = [successes |-> Cardinality(Succeeded("")),
                         total |-> Cardinality(Attempted(""))]
    /\ (pc = "validate" /\ trial = 1) =>
          /\ Cardinality(Attempted("IS")) = total_tests
          /\ Len(is_results) = Cardinality(Succeeded("IS"))
          /\ reported = [successes |-> Cardinality(Succeeded("IS")),
                         total |-> Cardinality(Attempted("IS"))]
    /\ (pc = "finished" /\ mode = "walk_forward" /\ top_performers # <<>>) =>
          /\ Cardinality(Attempted("OOS")) = Len(top_performers)
          /\ Len(validated_results) = Cardinality(Succeeded("OOS"))
          /\ reported = [successes |-> Cardinality(Succeeded("OOS")),
                         total |-> Cardinality(Attempted("OOS"))]

\* ---------------------------------------------------------------- C16
\* The elements of a list.
Elements(sq) == { sq[i] : i \in DOMAIN sq }

\* The combinations of the two ranges with the fast window below the slow.
OrderedPairs ==
    { c \in Elements(fast_window_range) \X Elements(slow_window_range) : c[1] < c[2] }

\* The number of value tuples of the optional ranges the sweep runs over.
RECURSIVE LenProduct(_)
LenProduct(ranges) ==
    IF ranges = <<>> THEN 1 ELSE Len(Head(ranges)) * LenProduct(Tail(ranges))

SweptCount == LenProduct(SubSeq(AsList(extra_ranges), 1, SweptExtras(extra_ranges)))

\* C16: no trial runs with fast_window >= slow_window, and the combinations
\* with fast_window >= slow_window are in neither the total attempted nor the
\* failures: the total is the number of combinations with fast < slow.
C16_FastBelowSlow ==
    /\ \A i \in DOMAIN trial_log : trial_log[i].params[1] < trial_log[i].params[2]
    /\ pc \in {"trials", "validate", "finished"} =>
          /\ total_tests = Cardinality(OrderedPairs) * SweptCount
          /\ { <<c[1], c[2]>> : c \in Elements(valid_combinations) } = OrderedPairs
    /\ (pc = "finished" /\ mode = "standard") =>
          Cardinality(Attempted("")) = Cardinality(OrderedPairs) * SweptCount

\* A sweep whose ranges held combinations with fast >= slow has run its
\* trials to the end.
C16_Witness ==
    /\ pc = "finished"
    /\ total_tests > 0
    /\ Len(fast_window_range) * Len(slow_window_range) > total_tests
    /\ Len(trial_log) >= total_tests

\* ---------------------------------------------------------------- C17
\* C17: a trial is served from the dataset fetched once before the sweep:
\* when a trial runs there has been one fetch from the exchange, the handler
\* holds the loaded data, and the trial leaves both as they were.
C17_TrialsShareUnmodifiedData ==
    [][Len(trial_log') > Len(trial_log) =>
          /\ loads = 1 /\ loads' = 1
          /\ handler_data = cached_data
          /\ handler_data' = handler_data
          /\ cached_data' = cached_data]_vars

\* Several trials, one of them successful (its strategy wrote its columns
\* into the frame it was served), have run on the loaded data.
C17_Witness ==
    /\ pc = "finished"
    /\ Len(trial_log) >= 2
    /\ \E i \in DOMAIN trial_log : ~trial_log[i].raised
    /\ handler_data = cached_data
    /\ handler_data.columns = OHLCV

\* ---------------------------------------------------------------- C18
\* C18: the in-sample trials evaluate bars of [start, split) only and the
\* out-of-sample trials bars of [split, end] only, so that no bar is
\* evaluated in both phases.
C18_PhasesDisjoint ==
    \A i \in DOMAIN trial_log :
        \A k \in DOMAIN trial_log[i].window :
            LET t == trial_log[i].window[k]
            IN  /\ trial_log[i].phase = "IS" => (start_ts <= t /\ t < split_ts)
                /\ trial_log[i].phase = "OOS" => (split_ts <= t /\ t <= end_ts)

\* ---------------------------------------------------------------- C19
\* A result with a Sharpe ratio that ranks above another's: a number above
\* a number, or a number against an undefined ratio.
RanksAbove(x, y) ==
    /\ ~IsNaN(x.sharpe)
    /\ IsNaN(y.sharpe) \/ QGt(x.sharpe, y.sharpe)

\* The successful in-sample results that were not selected.
NotSelected == Elements(is_results) \ Elements(top_performers)

\* C19: the configurations re-run out of sample are min(N, successful
\* in-sample trials) many, and no successful in-sample configuration left
\* out has a higher in-sample Sharpe ratio than one selected.
C19_TopNBySharpe ==
    /\ (pc = "validate" \/ (pc = "finished" /\ mode = "walk_forward")) =>
          /\ Len(top_performers) =
                (IF top_n <= Len(is_results) THEN top_n ELSE Len(is_results))
          /\ Elements(top_performers) \subseteq Elements(is_results)
          /\ \A x \in NotSelected : \A y \in Elements(top_performers) : ~RanksAbove(x, y)
    /\ (pc = "finished" /\ mode = "walk_forward") =>
          { trial_log[i].params : i \in Attempted("OOS") }
             = { top_performers[i].params : i \in DOMAIN top_performers }

\* ---------------------------------------------------------------- C20
\* C20: the Robustness Factor is 0 when Sharpe_OOS <= 0 or Sharpe_IS <= 0.01,
\* and Sharpe_OOS * (Sharpe_OOS / Sharpe_IS) in every other case.
C20_RobustnessFactor ==
    pc = "analyzed" =>
        IF QLe(sharpe_oos, Q(0)) \/ QLe(sharpe_is, <<1, 100>>)
        THEN robustness_factor = Q(0)
        ELSE robustness_factor = QMul(sharpe_oos, QDiv(sharpe_oos, sharpe_is))

\* The factor of a result with both Sharpe ratios above their thresholds
\* has been computed, and it is not 0.
C20_Witness ==
    /\ pc = "analyzed"
    /\ QGt(sharpe_is, <<1, 100>>)
    /\ QGt(sharpe_oos, Q(0))
    /\ robustness_factor = QMul(sharpe_oos, QDiv(sharpe_oos, sharpe_is))
    /\ QGt(robustness_factor, Q(0))

\* ---------------------------------------------------------------- C21
\* The Robustness Factor of each entry of a list of validated results.
FactorsOf(validated) ==
    [i \in DOMAIN validated |-> RobustnessFactor(validated[i].IS_sharpe, validated[i].OOS_sharpe)]

C22_RankedBySharpe ==
    (pc = "finished" /\ mode = "standard") =>
        \A i \in DOMAIN results : \A j \in DOMAIN results :
            i < j => ~RanksAbove(results[j], results[i])

\* ---------------------------------------------------------------- C29
\* C29: the list optimize returns holds one result per successful trial of
\* the call, and nothing else.
C29_ResultsOfThisCall ==
    (pc = "finished" /\ mode = "standard") =>
        /\ Len(results) = Cardinality(Succeeded(""))
        /\ { results[i].params : i \in DOMAIN results }
              = { trial_log[i].params : i \in Succeeded("") }

\* ---------------------------------------------------------------- C23
\* The strategies asked for long-only mode: the config object carries
\* long_only = True ("on"), or it is a StrategyConfig, which keeps no
\* long_only field whatever it was built with ("missing").
LongOnlyRequested == long_only \in {"on", "missing"}

\* The strategies whose generate_signals reads config.long_only.
LongOnlyStrategies == {"sma_cross", "bollinger"}

\* C23: a strategy with a long-only mode, asked for it, generates its signal
\* series and none of its SELL triggers is left in it.
C23_LongOnlyConvertsSell ==
    (strategy \in LongOnlyStrategies /\ LongOnlyRequested /\ pc \in {"generated", "raised"}) =>
        /\ pc = "generated"
        /\ \A t \in DOMAIN signal : signal[t] # SELL

\* ---------------------------------------------------------------- C27
\* Whether the exit state machine holds a position once it has processed
\* bar t, read off the signal column it leaves: a BUY bar opens (or keeps)
\* the position, a SELL bar (a strategy exit or a forced one) closes it.
RECURSIVE HoldsAfter(_)
HoldsAfter(t) ==
    IF t = 0 THEN FALSE
    ELSE IF signal[t] = BUY THEN TRUE
    ELSE IF signal[t] = SELL THEN FALSE
    ELSE HoldsAfter(t - 1)

\* The bars a position is held on: after its entry bar, up to and including
\* its exit bar.
HeldBars == { t \in 2..Len(close) : HoldsAfter(t - 1) }

\* C27: on every bar the exit state machine holds a position on, the
\* strategy return is the price return of the bar.
C27_HeldBarsEarnPriceReturn ==
    pc = "done" => \A t \in HeldBars : strategy_return[t] = PctChangeColumn(close)[t]

\* ---- C30
\* The ranges optimize was given besides the two window ranges, by the key
\* their value has in a trial's parameters.
Supplied ==
    { k \in DOMAIN NoExtras :
        CASE k = "atr_window" -> extra_ranges.atr_window_range # NoRange
          [] k = "atr_multiplier" -> extra_ranges.atr_multiplier_range # NoRange
          [] k = "adx_window" -> extra_ranges.adx_window_range # NoRange
          [] k = "adx_threshold" -> extra_ranges.adx_threshold_range # NoRange
          [] k = "macd_fast" -> extra_ranges.macd_fast_range # NoRange
          [] k = "max_hold_hours" -> extra_ranges.max_hold_hours_range # NoRange }

SuppliedRange(k) ==
    CASE k = "atr_window" -> extra_ranges.atr_window_range
      [] k = "atr_multiplier" -> extra_ranges.atr_multiplier_range
      [] k = "adx_window" -> extra_ranges.adx_window_range
      [] k = "adx_threshold" -> extra_ranges.adx_threshold_range
      [] k = "macd_fast" -> extra_ranges.macd_fast_range
      [] k = "max_hold_hours" -> extra_ranges.max_hold_hours_range

\* The number of combinations with fast < slow over all the ranges given.
RECURSIVE CombinationCount(_)
CombinationCount(keys) ==
    IF keys = {} THEN Len(ValidCombinations(fast_window_range, slow_window_range))
    ELSE LET k == CHOOSE x \in keys : TRUE
         IN  Len(SuppliedRange(k)) * CombinationCount(keys \ {k})

\* C30: every parameter range passed to optimize() is swept: the number of
\* trials equals the number of valid combinations over all supplied ranges,
\* and each trial's parameters contain one value from every supplied range.
C30_AllRangesSwept ==
    (pc = "finished" /\ mode = "standard") =>
        /\ Len(trial_log) = CombinationCount(Supplied)
        /\ \A i \in DOMAIN trial_log : \A k \in Supplied :
              trial_log[i].extras[k] \in Elements(SuppliedRange(k))

\* ---- C24
\* C24: across any sequence of run_once cycles, the bot submits a BUY order
\* only in a cycle where the executor reports the position flat and the signal
\* is BUY, and a SELL order only in a cycle where the reported net position is
\* positive and the signal is SELL; in every other case no order is submitted
\* (no trade is persisted but the one of the order submitted).
C24_OrdersFollowSignalAndPosition ==
    [][ pc = "live" =>
          /\ order_side' = "BUY" => (latest_signal' = BUY /\ position'.is_flat)
          /\ order_side' = "SELL" =>
                (latest_signal' = SELL /\ QGt(position'.net_quantity, Q(0)))
          /\ trades' # trades =>
                /\ order_side' # "none"
                /\ Len(trades') = Len(trades) + 1
                /\ SubSeq(trades', 1, Len(trades)) = trades
                /\ trades'[Len(trades')].side = order_side'
                /\ trades'[Len(trades')].symbol = BotSymbol ]_vars

\* The bot has bought when flat and then sold when long.
C24_Witness ==
    /\ pc = "live"
    /\ order_side = "SELL"
    /\ cycle_error = "none"
    /\ \E i \in DOMAIN trades : trades[i].side = "BUY"
    /\ trades[Len(trades)].side = "SELL"

\* ---- C25
\* C25: whenever the bot executes a SELL in response to a SELL signal while
\* long, the position in the symbol is flat afterwards, whatever the prices
\* at which the BUY and the SELL were executed.
C25_SellClosesPosition ==
    (pc = "live" /\ order_side = "SELL" /\ cycle_error = "none") =>
        QLt(QAbs(CalculateNetPosition(trades, BotSymbol)), FlatTolerance)

\* ---- C26
\* C26: for any sequence of execute_order, get_position and
\* reset_position_cache calls on a MockExecutor, also one created over a
\* repository that already holds trades, get_position(symbol).net_quantity is
\* the sum of the persisted BUY quantities minus the sum of the persisted
\* SELL quantities of that symbol.
C26_NetQuantityOfPersistedTrades ==
    pc = "get_position" =>
        position.net_quantity = CalculateNetPosition(trades, position.symbol)

\* ---- C28
\* C28: if execute_order raises during a cycle of the live loop, the order is
\* retried: when the next cycle produces the same signal and the position is
\* unchanged, the bot submits that order again.
C28_FailedOrderRetried ==
    [][ ( /\ pc = "live"
          /\ cycle_error = "execute_order"
          /\ latest_close' # 0
          /\ latest_signal' = latest_signal
          /\ position'.net_quantity = position.net_quantity )
        => order_side' = order_side ]_vars

====
